---- MODULE Spec2Model ----
(***************************************************************************)
(* Queue store adapter of the restaurant queue-management application      *)
(* (services/queueService.js, partitioned schema: queues/waiting,          *)
(* queues/serving, queues/archived, queues/stats/daily, stats/monthly).    *)
(* Every exported function of the adapter is one action that runs to       *)
(* completion; the realtime database is the state.                         *)
(***************************************************************************)
EXTENDS Integers, Sequences, FiniteSets, TLC

(* ------------------------------ bounds --------------------------------- *)

\* number of entries that join (push keys handed out)
MaxJoins == 2

\* the same, for the queue that is reordered
MaxReorderJoins == 3

\* number of times the wall clock advances
MaxTicks == 1

\* number of adapter calls in progress at once
MaxInflight == 2

\* length of the longest name handed to the validators
MaxNameLen == 51

\* length of the longest phone number handed to the validators
MaxPhoneLen == 11

(* --------------------------- strings ----------------------------------- *)
\* A JavaScript string is a sequence of one-character strings.

Space == " "

RECURSIVE TrimStart(_)
TrimStart(s) ==
    IF s # <<>> /\ Head(s) = Space THEN TrimStart(Tail(s)) ELSE s

RECURSIVE TrimEnd(_)
TrimEnd(s) ==
    IF s # <<>> /\ s[Len(s)] = Space THEN TrimEnd(SubSeq(s, 1, Len(s) - 1)) ELSE s

\* String.prototype.trim
Trim(s) == TrimEnd(TrimStart(s))

LowerChar(c) ==
    CASE c = "A" -> "a"
      [] c = "B" -> "b"
      [] c = "C" -> "c"
      [] OTHER -> c

\* String.prototype.toLowerCase
ToLowerCase(s) == [i \in 1..Len(s) |-> LowerChar(s[i])]

\* String.prototype.slice(-n): the last n characters, the whole string when shorter
SliceLast(s, n) == IF Len(s) <= n THEN s ELSE SubSeq(s, Len(s) - n + 1, Len(s))

DigitValue(c) ==
    CASE c = "0" -> 0 [] c = "1" -> 1 [] c = "2" -> 2 [] c = "3" -> 3
      [] c = "4" -> 4 [] c = "5" -> 5 [] c = "6" -> 6 [] c = "7" -> 7
      [] c = "8" -> 8 [] c = "9" -> 9 [] OTHER -> -1

IsDigit(c) == DigitValue(c) >= 0

\* the value NaN of parseInt and of a failed numeric coercion
NaN == 0 - 1

RECURSIVE DigitPrefix(_)
DigitPrefix(s) ==
    IF s # <<>> /\ IsDigit(Head(s)) THEN <<Head(s)>> \o DigitPrefix(Tail(s)) ELSE <<>>

RECURSIVE DigitsToNat(_)
DigitsToNat(s) ==
    IF s = <<>> THEN 0 ELSE 10 * DigitsToNat(SubSeq(s, 1, Len(s) - 1)) + DigitValue(s[Len(s)])


IsDigits(s) == \A i \in 1..Len(s) : IsDigit(s[i])

\* the numeric coercion of a form value in a comparison: 0 for a blank string,
\* the number for a digit string, NaN otherwise
ToNumber(s) ==
    LET t == Trim(s)
    IN  IF t = <<>> THEN 0 ELSE IF IsDigits(t) THEN DigitsToNat(t) ELSE NaN

\* parseInt on a form value: leading white space skipped, then the longest
\* prefix of decimal digits; NaN when there is none (form values are unsigned)
ParseInt(s) ==
    LET d == DigitPrefix(TrimStart(s))
    IN  IF d = <<>> THEN NaN ELSE DigitsToNat(d)

(* ----------------------------- time ------------------------------------ *)

\* The clock counts whole seconds: Date.now() is 1000 times the model's value,
\* which keeps a date of this century within TLC's 32-bit integers.
SecondsPerMinute == 60

SecondsPerDay == 24 * 60 * SecondsPerMinute

\* one advance of the wall clock: half a minute
TickSeconds == SecondsPerMinute \div 2

\* 2025-01-31T23:59:30Z: the clock when the model starts (day 20119 since the epoch)
StartTime == 20119 * SecondsPerDay + 23 * 60 * SecondsPerMinute + 59 * SecondsPerMinute
             + TickSeconds

\* Math.round of the non-negative quotient n / d (halves round up)
RoundDiv(n, d) == (2 * n + d) \div (2 * d)

\* the civil date <<year, month, day>> (UTC) of a time stamp, as toISOString prints it
CivilDate(t) ==
    LET z   == (t \div SecondsPerDay) + 719468
        era == z \div 146097
        doe == z - era * 146097
        yoe == (doe - doe \div 1460 + doe \div 36524 - doe \div 146096) \div 365
        doy == doe - (365 * yoe + yoe \div 4 - yoe \div 100)
        mp  == (5 * doy + 2) \div 153
        d   == doy - (153 * mp + 2) \div 5 + 1
        m   == IF mp < 10 THEN mp + 3 ELSE mp - 9
        y   == yoe + era * 400 + (IF m <= 2 THEN 1 ELSE 0)
    IN  <<y, m, d>>

\* new Date().toISOString().split("T")[0]: the key YYYY-MM-DD
TodayKey(t) == CivilDate(t)

\* today.substring(0, 7): the key YYYY-MM
MonthKey(t) == SubSeq(CivilDate(t), 1, 2)

(* ----------------------------- inputs ---------------------------------- *)

\* the form values customers submit: two that joinQueue accepts ...
Alice == [name |-> <<"A", "l">>, partySize |-> <<"2">>,
          phone |-> <<"5", "5", "5", "1", "2", "3", "4", "5", "6", "7">>]

Bob == [name |-> <<" ", "B", "o">>, partySize |-> <<"3">>,
        phone |-> <<"9", "9", "9", "0", "0", "0", "0", "0", "0", "0", " ">>]

ValidInputs == {Alice, Bob}

\* a customer whose phone number ends in the seven digits Alice's ends in
Carol == [name |-> <<"C", "y">>, partySize |-> <<"4">>,
          phone |-> <<"7", "7", "7", "1", "2", "3", "4", "5", "6", "7">>]

\* ... and three that it rejects: a blank name, a blank phone, a party of 0
RejectedInputs ==
    { [Alice EXCEPT !.name = <<" ", " ">>],
      [Alice EXCEPT !.phone = <<>>],
      [Alice EXCEPT !.partySize = <<"0">>] }

JoinInputs == ValidInputs \cup RejectedInputs

\* the phone numbers looked up: Alice's, Bob's after a blank, the last seven
\* digits of Alice's, a number nobody has, and a blank field
SearchTerms ==
    { Alice.phone,
      <<" ">> \o Bob.phone,
      <<"1", "2", "3", "4", "5", "6", "7">>,
      <<"4", "5", "6", "7">>,
      <<" ", " ">> }

\* what settings/config may hold: nothing, or an averageServingTime of 0, 3 or 10
ConfigInputs ==
    {<<>>} \cup { [averageServingTime |-> t] : t \in {0, 3, 10} }

\* the status arguments passed to updateQueueStatus
StatusArgs == {"serving", "completed", "skipped", "waiting"}

\* the push keys, in the order push hands them out
IdSet == 1..MaxJoins

\* n times the character c
Repeat(c, n) == [i \in 1..n |-> c]

DigitChar(d) ==
    CASE d = 0 -> "0" [] d = 1 -> "1" [] d = 2 -> "2" [] d = 3 -> "3" [] d = 4 -> "4"
      [] d = 5 -> "5" [] d = 6 -> "6" [] d = 7 -> "7" [] d = 8 -> "8" [] d = 9 -> "9"

\* the digits 1234567890 1... up to length n
DigitString(n) == [i \in 1..n |-> DigitChar(i % 10)]

\* the names validated: the letter a up to MaxNameLen times, and some of them
\* between two blanks
NameInputs ==
    { Repeat("a", n) : n \in 0..MaxNameLen }
    \cup { <<Space>> \o Repeat("a", n) \o <<Space>> : n \in {0, 1, 29, 30, 31} }

\* the phone numbers validated: digit strings up to MaxPhoneLen long, and those
\* of 9 digits or more with a letter or a blank in place of one digit
PhoneInputs ==
    { DigitString(n) : n \in 0..MaxPhoneLen }
    \cup UNION { { [DigitString(n) EXCEPT ![i] = c] : i \in 1..n, c \in {"a", Space} } :
                   n \in 9..MaxPhoneLen }
    \cup { Repeat(Space, 10) }

\* the party sizes validated
PartyInputs ==
    { <<>>, <<"0">>, <<"1">>, <<"2">>, <<"2", "0">>, <<"2", "1">>,
      <<"a", "b">>, <<"2", "x">>, <<Space, "3">> }

\* a few of each, valid and not
KeyNames == { Repeat("a", 2), <<>>, Repeat("a", MaxNameLen) }

KeyPhones == { DigitString(10), <<>>, DigitString(9),
               [DigitString(10) EXCEPT ![10] = "a"] }

KeyParties == { <<"2">>, <<"0">>, <<"2", "1">> }

\* the forms validated
FormInputs ==
    [name : NameInputs, phone : KeyPhones, partySize : KeyParties]
    \cup [name : KeyNames, phone : PhoneInputs, partySize : KeyParties]
    \cup [name : KeyNames, phone : KeyPhones, partySize : PartyInputs]

(* ------------------------------ state ---------------------------------- *)

VARIABLES
    waiting,    \* queues/waiting: id -> entry
    serving,    \* queues/serving: id -> entry
    archived,   \* queues/archived: id -> entry
    daily,      \* queues/stats/daily: YYYY-MM-DD -> aggregate
    monthly,    \* queues/stats/monthly: YYYY-MM -> aggregate
    settings,   \* settings/config (never written by the application)
    now,        \* Date.now()
    nextId,     \* the next push key
    last,       \* the outcome of the last adapter call
    joinRun,    \* positions handed out by the joins made in a row since waiting was empty
    withdrawn,  \* the ids whose entry a deleteQueueEntry call deleted
    lastAdvance,\* the latest updateQueueStatus that succeeded, if it was the last
                \* call to change or search the store: its arguments, the entry it
                \* read and what getDailyStats returned when it began
    watch,      \* the subscribeToQueueStatus subscription: its id and two listeners
    listeners,  \* the subscribeToQueueList subscription: its listener on
                \* queues/waiting and the listeners it added on queues/serving
    delivered,  \* the latest invocation of a subscription callback
    inflight,   \* the calls that have read the store and not yet written
    formData,   \* the values the join page holds for its three form fields
    queues      \* the flat schema's store: queues/{id}, each record with its status

\* what the subscriptions and the calls in progress hold
asyncVars == <<watch, listeners, delivered, inflight>>

vars == <<waiting, serving, archived, daily, monthly, settings, now, nextId,
          last, joinRun, withdrawn, lastAdvance, watch, listeners, delivered,
          inflight, formData, queues>>

store == <<waiting, serving, archived, daily, monthly>>

\* a database node without children does not exist
Empty == <<>>

Exists(node) == DOMAIN node # {}

Has(obj, f) == f \in DOMAIN obj

\* { ...base, ...over }
Spread(base, over) == over @@ base

\* remove(ref(parent/id))
RemoveChild(parent, id) == [k \in DOMAIN parent \ {id} |-> parent[k]]

\* set(ref(parent/id), value)
SetChild(parent, id, value) == (id :> value) @@ parent

\* update(ref(parent/id), fields): writes the named fields, creating the node if absent
UpdateChild(parent, id, fields) ==
    IF id \in DOMAIN parent
    THEN [parent EXCEPT ![id] = Spread(parent[id], fields)]
    ELSE SetChild(parent, id, fields)

\* x || d for a number x
OrElse(x, d) == IF x = 0 \/ x = NaN THEN d ELSE x

(* --------------------------- helper functions -------------------------- *)

\* the default of averageServingTime
DefaultServingTime == 5

\* the number of trailing characters the phone search compares
PhoneSuffixLen == 7

\* Math.max(...positions)
MaxOf(S) == CHOOSE m \in S : \A x \in S : x <= m

\* Object.entries / Object.values enumerate a snapshot in key order
RECURSIVE KeysInOrder(_)
KeysInOrder(K) ==
    IF K = {} THEN <<>>
    ELSE LET k == CHOOSE x \in K : \A y \in K : x <= y
         IN  <<k>> \o KeysInOrder(K \ {k})

\* one step of the stable sort by (a, b) => a.position - b.position
RECURSIVE InsertByPosition(_, _, _)
InsertByPosition(w, sorted, k) ==
    IF sorted = <<>> THEN <<k>>
    ELSE IF w[k].position < w[Head(sorted)].position
         THEN <<k>> \o sorted
         ELSE <<Head(sorted)>> \o InsertByPosition(w, Tail(sorted), k)

RECURSIVE SortByPosition(_, _)
SortByPosition(w, keys) ==
    IF keys = <<>> THEN <<>>
    ELSE InsertByPosition(w, SortByPosition(w, SubSeq(keys, 1, Len(keys) - 1)),
                          keys[Len(keys)])

\* Array.prototype.findIndex, + 1: 0 when no element matches
IndexOfPlus1(seq, k) ==
    IF \E i \in 1..Len(seq) : seq[i] = k
    THEN CHOOSE i \in 1..Len(seq) : seq[i] = k /\ \A j \in 1..(i - 1) : seq[j] # k
    ELSE 0

GetNextPositionNoIncrement(w) ==
    IF ~Exists(w) THEN 1
    ELSE MaxOf({OrElse(w[k].position, 0) : k \in DOMAIN w})

\* getNextPosition, on a snapshot w of queues/waiting
GetNextPosition(w) ==
    IF ~Exists(w) THEN 1
    ELSE MaxOf({OrElse(w[k].position, 0) : k \in DOMAIN w}) + 1

GetQueuePositionStored(w, queueId) ==
    IF queueId \in DOMAIN w THEN w[queueId].position ELSE 0

\* getQueuePosition, on a snapshot w of queues/waiting
GetQueuePosition(w, queueId) ==
    IF ~Exists(w) THEN 0
    ELSE IndexOfPlus1(SortByPosition(w, KeysInOrder(DOMAIN w)), queueId)

GetEstimatedWaitTimeDefault(cfg, w) ==
    IF Exists(w) THEN Cardinality(DOMAIN w) * DefaultServingTime ELSE 0

\* getEstimatedWaitTime, on snapshots of settings/config and queues/waiting
GetEstimatedWaitTime(cfg, w) ==
    LET avgServingTime ==
            IF Exists(cfg) /\ Has(cfg, "averageServingTime")
            THEN OrElse(cfg.averageServingTime, DefaultServingTime)
            ELSE DefaultServingTime
    IN  IF Exists(w) THEN Cardinality(DOMAIN w) * avgServingTime ELSE 0

\* the test of one entry in searchQueueByPhone
PhoneMatches(queueData, cleanSearchPhone) ==
    LET queuePhone == ToLowerCase(Trim(queueData.phone))
    IN  \/ queuePhone = cleanSearchPhone
        \/ SliceLast(queuePhone, PhoneSuffixLen) = SliceLast(cleanSearchPhone, PhoneSuffixLen)

\* the for loop over one partition: the first key whose entry matches, 0 when none
FirstMatch(part, cleanSearchPhone) ==
    LET keys == KeysInOrder(DOMAIN part)
        hits == {i \in 1..Len(keys) : PhoneMatches(part[keys[i]], cleanSearchPhone)}
    IN  IF hits = {} THEN 0 ELSE keys[CHOOSE i \in hits : \A j \in hits : i <= j]

\* a < b on numbers: false when either is NaN
LessThan(a, b) == a # NaN /\ b # NaN /\ a < b

\* the outcome of an adapter call: the function called, the error thrown ("none"
\* when it returned) and the value returned
Call(op, err, val) == [op |-> op, err |-> err, val |-> val]

(* ------------------------------ actions -------------------------------- *)

\* the join form as the page first renders it
InitialFormData == [name |-> <<>>, partySize |-> <<"1">>, phone |-> <<>>]

\* the state after construction, with settings/config holding cfg and the join
\* form holding form
InitWithForm(cfg, form) ==
    /\ waiting = Empty
    /\ serving = Empty
    /\ archived = Empty
    /\ daily = Empty
    /\ monthly = Empty
    /\ settings = cfg
    /\ now = StartTime
    /\ nextId = 1
    /\ last = Call("none", "none", Empty)
    /\ joinRun = <<>>
    /\ withdrawn = {}
    /\ lastAdvance = Empty
    /\ watch = Empty
    /\ listeners = Empty
    /\ delivered = Empty
    /\ inflight = Empty
    /\ formData = form
    /\ queues = Empty

InitWith(cfg) == InitWithForm(cfg, InitialFormData)

Init == InitWith(Empty)

\* the wall clock advances
Tick ==
    /\ now < StartTime + MaxTicks * TickSeconds
    /\ now' = now + TickSeconds
    /\ UNCHANGED <<waiting, serving, archived, daily, monthly, settings, nextId,
                   last, joinRun, withdrawn, lastAdvance, asyncVars,
                   formData, queues>>

\* joinQueue(name, partySize, phone)
PartitionedJoinQueue(name, partySize, phone) ==
    IF Trim(name) = <<>> \/ Trim(phone) = <<>> \/ LessThan(ToNumber(partySize), 1)
    THEN /\ last' = Call("join", "invalid", Empty)
         /\ lastAdvance' = Empty
         /\ UNCHANGED <<waiting, serving, archived, daily, monthly, settings, now,
                        nextId, joinRun, withdrawn, asyncVars, formData>>
    ELSE /\ LET position == GetNextPosition(waiting)
            IN  /\ waiting' = SetChild(waiting, nextId,
                                 [name      |-> Trim(name),
                                  partySize |-> ParseInt(partySize),
                                  phone     |-> Trim(phone),
                                  position  |-> position,
                                  createdAt |-> now,
                                  updatedAt |-> now])
                /\ joinRun' = IF ~Exists(waiting) THEN <<position>>
                              ELSE IF joinRun # <<>> THEN Append(joinRun, position)
                              ELSE <<>>
         /\ nextId' = nextId + 1
         /\ last' = Call("join", "none", [id |-> nextId])
         /\ lastAdvance' = Empty
         /\ UNCHANGED <<serving, archived, daily, monthly, settings, now, withdrawn,
                        asyncVars, formData>>

\* joinQueue of the partitioned adapter; it knows nothing of the flat store
JoinQueue(name, partySize, phone) ==
    PartitionedJoinQueue(name, partySize, phone) /\ UNCHANGED queues

\* the object getQueueStatus returns for an entry read from waiting or serving
QueueStatusObject(queueId, queueData, w, cfg) ==
    Spread(Spread([id |-> queueId], queueData),
           [position          |-> GetQueuePosition(w, queueId),
            estimatedWaitTime |-> GetEstimatedWaitTime(cfg, w)])

GetQueueStatusAnywhere(queueId) ==
    /\ IF queueId \in DOMAIN waiting
       THEN last' = Call("getStatus", "none",
                         QueueStatusObject(queueId, waiting[queueId], waiting, settings))
       ELSE IF queueId \in DOMAIN serving
       THEN last' = Call("getStatus", "none",
                         QueueStatusObject(queueId, serving[queueId], waiting, settings))
       ELSE IF queueId \in DOMAIN archived
       THEN last' = Call("getStatus", "none",
                         QueueStatusObject(queueId, archived[queueId], waiting, settings))
       ELSE last' = Call("getStatus", "not_found", Empty)
    /\ lastAdvance' = Empty
    /\ UNCHANGED <<waiting, serving, archived, daily, monthly, settings, now, nextId,
                   joinRun, withdrawn, asyncVars, formData, queues>>

\* getQueueStatus(queueId)
GetQueueStatus(queueId) ==
    /\ IF queueId \in DOMAIN waiting
       THEN last' = Call("getStatus", "none",
                         QueueStatusObject(queueId, waiting[queueId], waiting, settings))
       ELSE IF queueId \in DOMAIN serving
       THEN last' = Call("getStatus", "none",
                         QueueStatusObject(queueId, serving[queueId], waiting, settings))
       ELSE last' = Call("getStatus", "not_found", Empty)
    /\ lastAdvance' = Empty
    /\ UNCHANGED <<waiting, serving, archived, daily, monthly, settings, now, nextId,
                   joinRun, withdrawn, asyncVars, formData, queues>>

WaitTimeTruncated(queueData) ==
    IF Has(queueData, "createdAt") /\ Has(queueData, "servedAt")
       /\ queueData.createdAt # 0 /\ queueData.servedAt # 0
    THEN (queueData.servedAt - queueData.createdAt) \div SecondsPerMinute
    ELSE 0

\* the wait time updateQueueStatus computes for an entry it archives
WaitTimeOf(queueData) ==
    IF Has(queueData, "createdAt") /\ Has(queueData, "servedAt")
       /\ queueData.createdAt # 0 /\ queueData.servedAt # 0
    THEN RoundDiv(queueData.servedAt - queueData.createdAt, SecondsPerMinute)
    ELSE 0

\* stats.field || 0
StatOrZero(stats, f) == IF Has(stats, f) THEN OrElse(stats[f], 0) ELSE 0

\* the aggregate with one completed party added
AddCompleted(stats, partySize, waitTime) ==
    LET served == StatOrZero(stats, "totalServed") + 1
        people == StatOrZero(stats, "totalPeople") + partySize
        wait   == StatOrZero(stats, "totalWaitTime") + waitTime
    IN  Spread(stats, [totalServed   |-> served,
                       totalPeople   |-> people,
                       totalWaitTime |-> wait,
                       avgWaitTime   |-> RoundDiv(wait, served)])

DailyAfterCountingAll(d, t, status, partySize, waitTime) ==
    LET today == TodayKey(t)
        read  == IF today \in DOMAIN d THEN d[today]
                 ELSE [totalServed |-> 0, totalPeople |-> 0, totalWaitTime |-> 0,
                       lastUpdated |-> t]
    IN  UpdateChild(d, today, Spread(AddCompleted(read, partySize, waitTime),
                                     [lastUpdated |-> t]))

\* updateDailyStats: the value of queues/stats/daily after the call
DailyAfter(d, t, status, partySize, waitTime) ==
    LET today == TodayKey(t)
        read  == IF today \in DOMAIN d THEN d[today]
                 ELSE [totalServed |-> 0, totalPeople |-> 0, totalWaitTime |-> 0,
                       lastUpdated |-> t]
        added == IF status = "completed" THEN AddCompleted(read, partySize, waitTime)
                 ELSE read
    IN  UpdateChild(d, today, Spread(added, [lastUpdated |-> t]))

\* updateDailyStats: the value of queues/stats/monthly after the call
MonthlyAfter(m, t, status, partySize, waitTime) ==
    LET month == MonthKey(t)
        read  == IF month \in DOMAIN m THEN m[month]
                 ELSE [totalServed |-> 0, totalPeople |-> 0, totalWaitTime |-> 0]
    IN  IF status = "completed"
        THEN UpdateChild(m, month, AddCompleted(read, partySize, waitTime))
        ELSE m

\* the object getDailyStats returns, on a snapshot d of queues/stats/daily
DailyStatsObject(d, t) ==
    IF TodayKey(t) \in DOMAIN d THEN d[TodayKey(t)]
    ELSE [totalServed |-> 0, totalPeople |-> 0, avgWaitTime |-> 0, lastUpdated |-> t]

ValidStatusesAndWaiting == {"serving", "completed", "skipped", "waiting"}

ValidStatuses == {"serving", "completed", "skipped"}

\* the entry updateQueueStatus writes to queues/serving
ServingEntry(queueData, t) == Spread(queueData, [servedAt |-> t, updatedAt |-> t])

\* the entry updateQueueStatus writes to queues/archived
ArchivedEntry(queueData, newStatus, t) ==
    Spread(queueData, [status      |-> newStatus,
                       completedAt |-> t,
                       waitTime    |-> WaitTimeOf(queueData)])

KeepInSource(part, queueId) == part

RemoveAndRenumber(part, queueId) ==
    LET rest == RemoveChild(part, queueId)
    IN  [id \in DOMAIN rest |->
            IF queueId \in DOMAIN part /\ rest[id].position > part[queueId].position
            THEN [rest[id] EXCEPT !.position = @ - 1]
            ELSE rest[id]]

\* the remove of the entry from the partition updateQueueStatus read it from
RemoveFromSource(part, queueId) == RemoveChild(part, queueId)

SkipArchive(arch, queueId, entry) == arch

\* the set of the entry into queues/archived
AddToArchived(arch, queueId, entry) == SetChild(arch, queueId, entry)

UpdateQueueStatusServingAgain(queueId, newStatus) ==
    LET inWaiting == queueId \in DOMAIN waiting
        inServing == queueId \in DOMAIN serving
        queueData == IF inWaiting THEN waiting[queueId] ELSE serving[queueId]
    IN  IF newStatus \notin ValidStatuses
        THEN /\ last' = Call("advance", "invalid_status", Empty)
             /\ lastAdvance' = Empty
             /\ UNCHANGED <<waiting, serving, archived, daily, monthly, settings, now,
                            nextId, joinRun, withdrawn, asyncVars, formData, queues>>
        ELSE IF ~inWaiting /\ ~inServing
        THEN /\ last' = Call("advance", "not_found", Empty)
             /\ lastAdvance' = Empty
             /\ UNCHANGED <<waiting, serving, archived, daily, monthly, settings, now,
                            nextId, joinRun, withdrawn, asyncVars, formData, queues>>
        ELSE /\ last' = Call("advance", "none", Empty)
             /\ lastAdvance' = [id          |-> queueId,
                                 status      |-> newStatus,
                                 entry       |-> queueData,
                                 at          |-> now,
                                 statsBefore |-> DailyStatsObject(daily, now)]
             /\ joinRun' = <<>>
             /\ IF newStatus = "serving"
                THEN /\ IF inWaiting
                        THEN /\ waiting' = RemoveFromSource(waiting, queueId)
                             /\ serving' = SetChild(serving, queueId,
                                                    ServingEntry(queueData, now))
                        ELSE /\ serving' = SetChild(serving, queueId,
                                                    ServingEntry(queueData, now))
                             /\ UNCHANGED waiting
                     /\ UNCHANGED <<archived, daily, monthly>>
                ELSE LET waitTime == WaitTimeOf(queueData)
                         partySize == IF Has(queueData, "partySize")
                                      THEN OrElse(queueData.partySize, 1) ELSE 1
                     IN  /\ waiting' = IF inWaiting THEN RemoveFromSource(waiting, queueId)
                                       ELSE waiting
                         /\ serving' = IF inWaiting THEN serving
                                       ELSE RemoveFromSource(serving, queueId)
                         /\ archived' = AddToArchived(archived, queueId,
                                            ArchivedEntry(queueData, newStatus, now))
                         /\ daily' = DailyAfter(daily, now, newStatus, partySize, waitTime)
                         /\ monthly' = MonthlyAfter(monthly, now, newStatus, partySize,
                                                    waitTime)
             /\ UNCHANGED <<settings, now, nextId, withdrawn, asyncVars, formData, queues>>

\* updateQueueStatus(queueId, newStatus)
PartitionedUpdateQueueStatus(queueId, newStatus) ==
    LET inWaiting == queueId \in DOMAIN waiting
        inServing == queueId \in DOMAIN serving
        queueData == IF inWaiting THEN waiting[queueId] ELSE serving[queueId]
    IN  IF newStatus \notin ValidStatuses
        THEN /\ last' = Call("advance", "invalid_status", Empty)
             /\ lastAdvance' = Empty
             /\ UNCHANGED <<waiting, serving, archived, daily, monthly, settings, now,
                            nextId, joinRun, withdrawn, asyncVars, formData>>
        ELSE IF ~inWaiting /\ ~inServing
        THEN /\ last' = Call("advance", "not_found", Empty)
             /\ lastAdvance' = Empty
             /\ UNCHANGED <<waiting, serving, archived, daily, monthly, settings, now,
                            nextId, joinRun, withdrawn, asyncVars, formData>>
        ELSE /\ last' = Call("advance", "none", Empty)
             /\ lastAdvance' = [id          |-> queueId,
                                 status      |-> newStatus,
                                 entry       |-> queueData,
                                 at          |-> now,
                                 statsBefore |-> DailyStatsObject(daily, now)]
             /\ joinRun' = <<>>
             /\ IF newStatus = "serving"
                THEN /\ IF inWaiting
                        THEN /\ waiting' = RemoveFromSource(waiting, queueId)
                             /\ serving' = SetChild(serving, queueId,
                                                    ServingEntry(queueData, now))
                        ELSE UNCHANGED <<waiting, serving>>
                     /\ UNCHANGED <<archived, daily, monthly>>
                ELSE LET waitTime == WaitTimeOf(queueData)
                         partySize == IF Has(queueData, "partySize")
                                      THEN OrElse(queueData.partySize, 1) ELSE 1
                     IN  /\ waiting' = IF inWaiting THEN RemoveFromSource(waiting, queueId)
                                       ELSE waiting
                         /\ serving' = IF inWaiting THEN serving
                                       ELSE RemoveFromSource(serving, queueId)
                         /\ archived' = AddToArchived(archived, queueId,
                                            ArchivedEntry(queueData, newStatus, now))
                         /\ daily' = DailyAfter(daily, now, newStatus, partySize, waitTime)
                         /\ monthly' = MonthlyAfter(monthly, now, newStatus, partySize,
                                                    waitTime)
             /\ UNCHANGED <<settings, now, nextId, withdrawn, asyncVars, formData>>

\* updateQueueStatus of the partitioned adapter; it knows nothing of the flat store
UpdateQueueStatus(queueId, newStatus) ==
    PartitionedUpdateQueueStatus(queueId, newStatus) /\ UNCHANGED queues

ReorderWritesSecondOnly(w, queueId1, queueId2) ==
    UpdateChild(w, queueId2, [position |-> w[queueId1].position])

ReorderWritesRereading(w, queueId1, queueId2) ==
    LET w1 == UpdateChild(w, queueId1, [position |-> w[queueId2].position])
    IN  UpdateChild(w1, queueId2, [position |-> w1[queueId1].position])

\* reorderQueues: queues/waiting after the two position writes
ReorderWrites(w, queueId1, queueId2) ==
    LET pos1 == w[queueId1].position
        pos2 == w[queueId2].position
    IN  UpdateChild(UpdateChild(w, queueId1, [position |-> pos2]),
                    queueId2, [position |-> pos1])

\* reorderQueues(queueId1, queueId2)
PartitionedReorderQueues(queueId1, queueId2) ==
    IF queueId1 \notin DOMAIN waiting \/ queueId2 \notin DOMAIN waiting
    THEN /\ last' = Call("reorder", "not_found", Empty)
         /\ lastAdvance' = Empty
         /\ UNCHANGED <<waiting, serving, archived, daily, monthly, settings, now,
                        nextId, joinRun, withdrawn, asyncVars, formData>>
    ELSE /\ waiting' = ReorderWrites(waiting, queueId1, queueId2)
         /\ last' = Call("reorder", "none", Empty)
         /\ lastAdvance' = Empty
         /\ joinRun' = <<>>
         /\ UNCHANGED <<serving, archived, daily, monthly, settings, now, nextId,
                        withdrawn, asyncVars, formData>>

\* reorderQueues of the partitioned adapter; it knows nothing of the flat store
ReorderQueues(queueId1, queueId2) ==
    PartitionedReorderQueues(queueId1, queueId2) /\ UNCHANGED queues

\* getDailyStats()
GetDailyStats ==
    /\ last' = Call("dailyStats", "none", DailyStatsObject(daily, now))
    /\ UNCHANGED <<waiting, serving, archived, daily, monthly, settings, now, nextId,
                   joinRun, withdrawn, lastAdvance, asyncVars, formData, queues>>

DeleteFromWaitingOnly(queueId) ==
    /\ waiting' = RemoveChild(waiting, queueId)
    /\ withdrawn' = IF queueId \in DOMAIN waiting \cup DOMAIN serving
                    THEN withdrawn \cup {queueId} ELSE withdrawn
    /\ last' = Call("remove", "none", Empty)
    /\ lastAdvance' = Empty
    /\ joinRun' = <<>>
    /\ UNCHANGED <<serving, archived, daily, monthly, settings, now, nextId,
                   asyncVars, formData, queues>>

\* deleteQueueEntry(queueId)
PartitionedDeleteQueueEntry(queueId) ==
    /\ waiting' = RemoveChild(waiting, queueId)
    /\ serving' = RemoveChild(serving, queueId)
    /\ withdrawn' = IF queueId \in DOMAIN waiting \cup DOMAIN serving
                    THEN withdrawn \cup {queueId} ELSE withdrawn
    /\ last' = Call("remove", "none", Empty)
    /\ lastAdvance' = Empty
    /\ joinRun' = <<>>
    /\ UNCHANGED <<archived, daily, monthly, settings, now, nextId, asyncVars, formData>>

\* deleteQueueEntry of the partitioned adapter; it knows nothing of the flat store
DeleteQueueEntry(queueId) ==
    PartitionedDeleteQueueEntry(queueId) /\ UNCHANGED queues

SearchResultServingFirst(phone, w, s) ==
    LET cleanSearchPhone == ToLowerCase(Trim(phone))
        inServing == FirstMatch(s, cleanSearchPhone)
        inWaiting == FirstMatch(w, cleanSearchPhone)
    IN  IF Trim(phone) = <<>> THEN Call("search", "blank", Empty)
        ELSE IF inServing # 0
        THEN Call("search", "none",
                  Spread([id |-> inServing, status |-> "serving"], s[inServing]))
        ELSE IF inWaiting # 0
        THEN Call("search", "none",
                  Spread([id |-> inWaiting, status |-> "waiting"], w[inWaiting]))
        ELSE Call("search", "not_found", Empty)

\* searchQueueByPhone: its outcome on snapshots w, s of queues/waiting, queues/serving
SearchResult(phone, w, s) ==
    LET cleanSearchPhone == ToLowerCase(Trim(phone))
        inWaiting == FirstMatch(w, cleanSearchPhone)
        inServing == FirstMatch(s, cleanSearchPhone)
    IN  IF Trim(phone) = <<>> THEN Call("search", "blank", Empty)
        ELSE IF inWaiting # 0
        THEN Call("search", "none",
                  Spread([id |-> inWaiting, status |-> "waiting"], w[inWaiting]))
        ELSE IF inServing # 0
        THEN Call("search", "none",
                  Spread([id |-> inServing, status |-> "serving"], s[inServing]))
        ELSE Call("search", "not_found", Empty)

\* searchQueueByPhone(phone)
SearchQueueByPhone(phone) ==
    /\ last' = SearchResult(phone, waiting, serving)
    /\ lastAdvance' = Empty
    /\ UNCHANGED <<waiting, serving, archived, daily, monthly, settings, now, nextId,
                   joinRun, withdrawn, asyncVars, formData, queues>>

(* ---------------------------- subscriptions ---------------------------- *)

\* An onValue listener runs its callback on the value at its location once after
\* it is added and again after the value changes; it always runs on the latest
\* value, so changes made in between are delivered as one. A listener is modelled
\* by the snapshot its callback last ran on.
Unfired == [fired |-> FALSE, val |-> Empty]

Fired(val) == [fired |-> TRUE, val |-> val]

\* snapshot.val() at queues/<partition>/<queueId>: Empty when !snapshot.exists()
ChildOf(part, queueId) == IF queueId \in DOMAIN part THEN part[queueId] ELSE Empty

\* one invocation of a subscription callback: the subscription, the argument and,
\* for a list, the number of the queues/waiting snapshot it was built from
Invocation(sub, val, snap) == [sub |-> sub, val |-> val, snap |-> snap]

\* subscribeToQueueStatus(queueId, callback): adds the two listeners
SubscribeToQueueStatus(queueId) ==
    /\ ~Exists(watch)
    /\ watch' = [id |-> queueId, active |-> TRUE, onWaiting |-> Unfired,
                 onServing |-> Unfired]
    /\ UNCHANGED <<waiting, serving, archived, daily, monthly, settings, now, nextId,
                   last, joinRun, withdrawn, lastAdvance, listeners, delivered,
                   inflight, formData, queues>>

\* the listener on queues/waiting/{queueId} runs
OnWaitingEntry ==
    /\ Exists(watch) /\ watch.active
    /\ LET snapshot == ChildOf(waiting, watch.id)
       IN  /\ watch.onWaiting # Fired(snapshot)
           /\ watch' = [watch EXCEPT !.onWaiting = Fired(snapshot)]
           /\ delivered' = IF Exists(snapshot)
                           THEN Invocation("status",
                                    Spread([id |-> watch.id, status |-> "waiting"],
                                           snapshot), 0)
                           ELSE delivered
    /\ UNCHANGED <<waiting, serving, archived, daily, monthly, settings, now, nextId,
                   last, joinRun, withdrawn, lastAdvance, listeners, inflight,
                   formData, queues>>

\* the listener on queues/serving/{queueId} runs
OnServingEntry ==
    /\ Exists(watch) /\ watch.active
    /\ LET snapshot == ChildOf(serving, watch.id)
       IN  /\ watch.onServing # Fired(snapshot)
           /\ watch' = [watch EXCEPT !.onServing = Fired(snapshot)]
           /\ delivered' = IF Exists(snapshot)
                           THEN Invocation("status",
                                    Spread([id |-> watch.id, status |-> "serving"],
                                           snapshot), 0)
                           ELSE delivered
    /\ UNCHANGED <<waiting, serving, archived, daily, monthly, settings, now, nextId,
                   last, joinRun, withdrawn, lastAdvance, listeners, inflight,
                   formData, queues>>

\* the function subscribeToQueueStatus returns: removes both listeners
UnsubscribeStatus ==
    /\ Exists(watch) /\ watch.active
    /\ watch' = [watch EXCEPT !.active = FALSE]
    /\ UNCHANGED <<waiting, serving, archived, daily, monthly, settings, now, nextId,
                   last, joinRun, withdrawn, lastAdvance, listeners, delivered,
                   inflight, formData, queues>>

\* Object.entries(data).forEach(([id, value]) => push({ id, status, ...value }))
Tagged(part, status) ==
    LET keys == KeysInOrder(DOMAIN part)
    IN  [i \in 1..Len(keys) |->
            Spread([id |-> keys[i], status |-> status], part[keys[i]])]

\* [...waitingQueues, ...servingQueues] left as concatenated
AllQueuesAsConcatenated(waitingQueues, servingQueues) ==
    waitingQueues \o servingQueues

\* [...waitingQueues, ...servingQueues].sort((a, b) => a.position - b.position)
AllQueues(waitingQueues, servingQueues) ==
    LET all   == waitingQueues \o servingQueues
        order == SortByPosition(all, [i \in 1..Len(all) |-> i])
    IN  [i \in 1..Len(all) |-> all[order[i]]]

\* subscribeToQueueList(callback): adds the listener on queues/waiting
SubscribeToQueueList ==
    /\ ~Exists(listeners)
    /\ listeners' = [active |-> TRUE, onWaiting |-> Unfired, onServing |-> <<>>]
    /\ UNCHANGED <<waiting, serving, archived, daily, monthly, settings, now, nextId,
                   last, joinRun, withdrawn, lastAdvance, watch, delivered, inflight,
                   formData, queues>>

\* the listener on queues/waiting runs: it builds waitingQueues and adds one more
\* listener on queues/serving, whose callback keeps this waitingQueues
OnWaitingList ==
    /\ Exists(listeners) /\ listeners.active
    /\ listeners.onWaiting # Fired(waiting)
    /\ listeners' = [listeners EXCEPT
                        !.onWaiting = Fired(waiting),
                        !.onServing = Append(@, [waitingQueues |-> Tagged(waiting, "waiting"),
                                                 snap          |-> Len(@) + 1,
                                                 seen          |-> Unfired])]
    /\ UNCHANGED <<waiting, serving, archived, daily, monthly, settings, now, nextId,
                   last, joinRun, withdrawn, lastAdvance, watch, delivered, inflight,
                   formData, queues>>

\* the i-th listener on queues/serving runs; nothing ever removes it
OnServingList(i) ==
    /\ Exists(listeners)
    /\ i \in 1..Len(listeners.onServing)
    /\ listeners.onServing[i].seen # Fired(serving)
    /\ listeners' = [listeners EXCEPT !.onServing[i].seen = Fired(serving)]
    /\ delivered' = Invocation("list",
                        AllQueues(listeners.onServing[i].waitingQueues,
                                  Tagged(serving, "serving")),
                        listeners.onServing[i].snap)
    /\ UNCHANGED <<waiting, serving, archived, daily, monthly, settings, now, nextId,
                   last, joinRun, withdrawn, lastAdvance, watch, inflight,
                   formData, queues>>

\* the function subscribeToQueueList returns: unsubscribeWaiting
UnsubscribeList ==
    /\ Exists(listeners) /\ listeners.active
    /\ listeners' = [listeners EXCEPT !.active = FALSE]
    /\ UNCHANGED <<waiting, serving, archived, daily, monthly, settings, now, nextId,
                   last, joinRun, withdrawn, lastAdvance, watch, delivered, inflight,
                   formData, queues>>

(* ------------------------- the flat schema ----------------------------- *)

\* The first version of the service keeps one record per entry at queues/{id},
\* with its status as a field. Its functions are given as functions of a
\* snapshot q of queues.
StatusIs(q, k, statuses) == Has(q[k], "status") /\ q[k].status \in statuses

\* Object.entries(data) ... .filter(q => statuses.includes(q.status)), as keys
KeysWithStatus(q, statuses) ==
    SelectSeq(KeysInOrder(DOMAIN q), LAMBDA k : StatusIs(q, k, statuses))

\* getNextPosition of the flat schema
FlatGetNextPosition(q) ==
    LET positions == {OrElse(q[k].position, 0) :
                         k \in {x \in DOMAIN q : StatusIs(q, x, {"waiting"})}}
    IN  IF positions # {} THEN MaxOf(positions) + 1 ELSE 1

\* joinQueue of the flat schema: queues after the call that pushes key
FlatJoinQueue(q, name, partySize, phone, t, key) ==
    IF Trim(name) = <<>> \/ Trim(phone) = <<>> \/ LessThan(ToNumber(partySize), 1)
    THEN q
    ELSE SetChild(q, key, [name      |-> Trim(name),
                           partySize |-> ParseInt(partySize),
                           phone     |-> Trim(phone),
                           status    |-> "waiting",
                           position  |-> FlatGetNextPosition(q),
                           createdAt |-> t,
                           updatedAt |-> t])

\* updateQueueStatus of the flat schema: updateData
FlatUpdateData(newStatus, t) ==
    IF newStatus = "serving"
    THEN [status |-> newStatus, updatedAt |-> t, servedAt |-> t]
    ELSE IF newStatus \in {"completed", "skipped"}
    THEN [status |-> newStatus, updatedAt |-> t, completedAt |-> t]
    ELSE [status |-> newStatus, updatedAt |-> t]

\* updateQueueStatus of the flat schema: queues after the call
FlatUpdateQueueStatus(q, queueId, newStatus, t) ==
    IF newStatus \notin ValidStatusesAndWaiting THEN q
    ELSE UpdateChild(q, queueId, FlatUpdateData(newStatus, t))

\* reorderQueues of the flat schema: queues after the call
FlatReorderQueues(q, queueId1, queueId2) ==
    IF queueId1 \notin DOMAIN q \/ queueId2 \notin DOMAIN q THEN q
    ELSE ReorderWrites(q, queueId1, queueId2)

\* deleteQueueEntry of the flat schema: queues after the call
FlatDeleteQueueEntry(q, queueId) == RemoveChild(q, queueId)

\* subscribeToQueueList of the flat schema: the list its callback is given
FlatQueueList(q) ==
    LET order == SortByPosition(q, KeysWithStatus(q, {"waiting", "serving"}))
    IN  [i \in 1..Len(order) |-> Spread([id |-> order[i]], q[order[i]])]

\* getQueuePosition of the flat schema
FlatGetQueuePosition(q, queueId) ==
    IF ~Exists(q) THEN 0
    ELSE IndexOfPlus1(SortByPosition(q, KeysWithStatus(q, {"waiting"})), queueId)

\* getDailyStats of the flat schema: the sums over the completed records
RECURSIVE FlatTotalPeople(_, _)
FlatTotalPeople(q, keys) ==
    IF keys = <<>> THEN 0
    ELSE (IF Has(q[Head(keys)], "partySize") THEN OrElse(q[Head(keys)].partySize, 1)
          ELSE 1)
         + FlatTotalPeople(q, Tail(keys))

RECURSIVE FlatTotalWaitSeconds(_, _)
FlatTotalWaitSeconds(q, keys) ==
    IF keys = <<>> THEN 0
    ELSE (IF Has(q[Head(keys)], "servedAt") /\ Has(q[Head(keys)], "createdAt")
          THEN q[Head(keys)].servedAt - q[Head(keys)].createdAt
          ELSE 0)
         + FlatTotalWaitSeconds(q, Tail(keys))

\* getDailyStats of the flat schema
FlatGetDailyStats(q) ==
    LET completed == KeysWithStatus(q, {"completed"})
    IN  IF ~Exists(q)
        THEN [totalServed |-> 0, totalPeople |-> 0, avgWaitTime |-> 0]
        ELSE [totalServed |-> Len(completed),
              totalPeople |-> FlatTotalPeople(q, completed),
              avgWaitTime |-> IF Len(completed) > 0
                              THEN RoundDiv(FlatTotalWaitSeconds(q, completed),
                                            SecondsPerMinute * Len(completed))
                              ELSE 0,
              peakHour    |-> "N/A"]

\* The same call made on either adapter, each on its own store; push() hands
\* out keys in the order of the calls, so both give the entry the same key.
JoinQueueOnBoth(name, partySize, phone) ==
    /\ PartitionedJoinQueue(name, partySize, phone)
    /\ queues' = FlatJoinQueue(queues, name, partySize, phone, now, nextId)

UpdateQueueStatusOnBoth(queueId, newStatus) ==
    /\ PartitionedUpdateQueueStatus(queueId, newStatus)
    /\ queues' = FlatUpdateQueueStatus(queues, queueId, newStatus, now)

ReorderQueuesOnBoth(queueId1, queueId2) ==
    /\ PartitionedReorderQueues(queueId1, queueId2)
    /\ queues' = FlatReorderQueues(queues, queueId1, queueId2)

DeleteQueueEntryOnBoth(queueId) ==
    /\ PartitionedDeleteQueueEntry(queueId)
    /\ queues' = FlatDeleteQueueEntry(queues, queueId)

(* ------------------------- calls in progress --------------------------- *)

\* Every await of a store read or write lets other calls run. A call in progress
\* is kept in inflight with what it has read so far.
RemoveAt(seq, i) == SubSeq(seq, 1, i - 1) \o SubSeq(seq, i + 1, Len(seq))

\* the joins that have begun: the entries pushed and the joins in progress
JoinsBegun ==
    (nextId - 1) + Cardinality({i \in 1..Len(inflight) : inflight[i].op = "join"})

\* joinQueue up to the end of `await getNextPosition()`: a valid call has read
\* queues/waiting
JoinQueueReads(name, partySize, phone) ==
    /\ ~(Trim(name) = <<>> \/ Trim(phone) = <<>> \/ LessThan(ToNumber(partySize), 1))
    /\ Len(inflight) < MaxInflight
    /\ inflight' = Append(inflight, [op        |-> "join",
                                     name      |-> name,
                                     partySize |-> partySize,
                                     phone     |-> phone,
                                     read      |-> waiting,
                                     position  |-> GetNextPosition(waiting)])
    /\ UNCHANGED <<waiting, serving, archived, daily, monthly, settings, now, nextId,
                   last, joinRun, withdrawn, lastAdvance, watch, listeners, delivered,
                   formData, queues>>

PositionRecomputed(call, w) == GetNextPosition(w)

\* the position joinQueue pushes: the constant it got from getNextPosition
PositionPushed(call, w) == call.position

\* joinQueue from push() on: the i-th call in progress inserts its entry
JoinQueueWrites(i) ==
    /\ i \in 1..Len(inflight)
    /\ inflight[i].op = "join"
    /\ waiting' = SetChild(waiting, nextId,
                     [name      |-> Trim(inflight[i].name),
                      partySize |-> ParseInt(inflight[i].partySize),
                      phone     |-> Trim(inflight[i].phone),
                      position  |-> PositionPushed(inflight[i], waiting),
                      createdAt |-> now,
                      updatedAt |-> now])
    /\ nextId' = nextId + 1
    /\ inflight' = RemoveAt(inflight, i)
    /\ last' = Call("join", "none", [id |-> nextId])
    /\ lastAdvance' = Empty
    /\ joinRun' = <<>>
    /\ UNCHANGED <<serving, archived, daily, monthly, settings, now, withdrawn, watch,
                   listeners, delivered, formData, queues>>

\* reorderQueues up to its two reads (taken as one step): it throws when an entry
\* is missing, and holds pos1 and pos2 otherwise
ReorderQueuesReads(queueId1, queueId2) ==
    IF queueId1 \notin DOMAIN waiting \/ queueId2 \notin DOMAIN waiting
    THEN /\ last' = Call("reorder", "not_found", Empty)
         /\ lastAdvance' = Empty
         /\ UNCHANGED <<waiting, serving, archived, daily, monthly, settings, now,
                        nextId, joinRun, withdrawn, asyncVars, formData, queues>>
    ELSE /\ Len(inflight) < MaxInflight
         /\ inflight' = Append(inflight, [op       |-> "reorder",
                                          queueId1 |-> queueId1,
                                          queueId2 |-> queueId2,
                                          pos1     |-> waiting[queueId1].position,
                                          pos2     |-> waiting[queueId2].position,
                                          written  |-> 0])
         /\ UNCHANGED <<waiting, serving, archived, daily, monthly, settings, now,
                        nextId, last, joinRun, withdrawn, lastAdvance, watch,
                        listeners, delivered, formData, queues>>

\* reorderQueues: update(queues/waiting/{queueId1}, { position: pos2 })
ReorderQueuesWritesFirst(i) ==
    /\ i \in 1..Len(inflight)
    /\ inflight[i].op = "reorder" /\ inflight[i].written = 0
    /\ waiting' = UpdateChild(waiting, inflight[i].queueId1,
                              [position |-> inflight[i].pos2])
    /\ inflight' = [inflight EXCEPT ![i].written = 1]
    /\ joinRun' = <<>>
    /\ UNCHANGED <<serving, archived, daily, monthly, settings, now, nextId, last,
                   withdrawn, lastAdvance, watch, listeners, delivered,
                   formData, queues>>

\* reorderQueues: update(queues/waiting/{queueId2}, { position: pos1 }), and return
ReorderQueuesWritesSecond(i) ==
    /\ i \in 1..Len(inflight)
    /\ inflight[i].op = "reorder" /\ inflight[i].written = 1
    /\ waiting' = UpdateChild(waiting, inflight[i].queueId2,
                              [position |-> inflight[i].pos1])
    /\ inflight' = RemoveAt(inflight, i)
    /\ last' = Call("reorder", "none", Empty)
    /\ lastAdvance' = Empty
    /\ joinRun' = <<>>
    /\ UNCHANGED <<serving, archived, daily, monthly, settings, now, nextId,
                   withdrawn, watch, listeners, delivered, formData, queues>>

\* updateQueueStatus up to its look-up of the entry (the reads of
\* queues/waiting/{queueId} and queues/serving/{queueId}, taken as one step): it
\* throws on an invalid status or a missing entry, returns at once when an entry
\* in serving is to be served, and otherwise holds queueData and currentLocation
UpdateQueueStatusReads(queueId, newStatus) ==
    LET inWaiting == queueId \in DOMAIN waiting
        inServing == queueId \in DOMAIN serving
        queueData == IF inWaiting THEN waiting[queueId] ELSE serving[queueId]
    IN  IF newStatus \notin ValidStatuses
        THEN /\ last' = Call("advance", "invalid_status", Empty)
             /\ lastAdvance' = Empty
             /\ UNCHANGED <<waiting, serving, archived, daily, monthly, settings, now,
                            nextId, joinRun, withdrawn, asyncVars, formData, queues>>
        ELSE IF ~inWaiting /\ ~inServing
        THEN /\ last' = Call("advance", "not_found", Empty)
             /\ lastAdvance' = Empty
             /\ UNCHANGED <<waiting, serving, archived, daily, monthly, settings, now,
                            nextId, joinRun, withdrawn, asyncVars, formData, queues>>
        ELSE IF newStatus = "serving" /\ ~inWaiting
        THEN /\ last' = Call("advance", "none", Empty)
             /\ lastAdvance' = Empty
             /\ UNCHANGED <<waiting, serving, archived, daily, monthly, settings, now,
                            nextId, joinRun, withdrawn, asyncVars, formData, queues>>
        ELSE /\ Len(inflight) < MaxInflight
             /\ inflight' = Append(inflight,
                                [op              |-> "advance",
                                 queueId         |-> queueId,
                                 newStatus       |-> newStatus,
                                 queueData       |-> queueData,
                                 currentLocation |-> IF inWaiting THEN "waiting"
                                                     ELSE "serving",
                                 step            |-> "remove"])
             /\ UNCHANGED <<waiting, serving, archived, daily, monthly, settings, now,
                            nextId, last, joinRun, withdrawn, lastAdvance, watch,
                            listeners, delivered, formData, queues>>

\* updateQueueStatus: remove(queues/<currentLocation>/{queueId})
UpdateQueueStatusRemoves(i) ==
    /\ i \in 1..Len(inflight)
    /\ inflight[i].op = "advance" /\ inflight[i].step = "remove"
    /\ IF inflight[i].currentLocation = "waiting"
       THEN /\ waiting' = RemoveFromSource(waiting, inflight[i].queueId)
            /\ UNCHANGED serving
       ELSE /\ serving' = RemoveFromSource(serving, inflight[i].queueId)
            /\ UNCHANGED waiting
    /\ inflight' = [inflight EXCEPT ![i].step = "set"]
    /\ joinRun' = <<>>
    /\ UNCHANGED <<archived, daily, monthly, settings, now, nextId, last, withdrawn,
                   lastAdvance, watch, listeners, delivered, formData, queues>>

\* the call in progress once its set is done: a move to serving returns, a move
\* to archived goes on to updateDailyStats
AfterSet(call) == [call EXCEPT !.step = "readDaily"]

\* updateQueueStatus: set(queues/serving/{queueId}, ...) and return, or
\* set(queues/archived/{queueId}, ...)
UpdateQueueStatusSets(i) ==
    /\ i \in 1..Len(inflight)
    /\ inflight[i].op = "advance" /\ inflight[i].step = "set"
    /\ IF inflight[i].newStatus = "serving"
       THEN /\ serving' = SetChild(serving, inflight[i].queueId,
                                   ServingEntry(inflight[i].queueData, now))
            /\ inflight' = RemoveAt(inflight, i)
            /\ last' = Call("advance", "none", Empty)
            /\ lastAdvance' = Empty
            /\ UNCHANGED archived
       ELSE /\ archived' = AddToArchived(archived, inflight[i].queueId,
                                ArchivedEntry(inflight[i].queueData,
                                              inflight[i].newStatus, now))
            /\ inflight' = [inflight EXCEPT ![i] = AfterSet(@)]
            /\ UNCHANGED <<serving, last, lastAdvance>>
    /\ UNCHANGED <<waiting, daily, monthly, settings, now, nextId, joinRun, withdrawn,
                   watch, listeners, delivered, formData, queues>>

\* updateQueueStatus when its set fails after its remove was done: the error is
\* logged and thrown again
UpdateQueueStatusSetFails(i) ==
    /\ i \in 1..Len(inflight)
    /\ inflight[i].op = "advance" /\ inflight[i].step = "set"
    /\ inflight' = RemoveAt(inflight, i)
    /\ last' = Call("advance", "store", Empty)
    /\ lastAdvance' = Empty
    /\ UNCHANGED <<waiting, serving, archived, daily, monthly, settings, now, nextId,
                   joinRun, withdrawn, watch, listeners, delivered, formData, queues>>

\* queueData.partySize || 1
PartySizeOf(queueData) ==
    IF Has(queueData, "partySize") THEN OrElse(queueData.partySize, 1) ELSE 1

\* updateDailyStats: get(queues/stats/daily/{today}), and currentStats made ready
UpdateDailyStatsReads(i) ==
    /\ i \in 1..Len(inflight)
    /\ inflight[i].op = "advance" /\ inflight[i].step = "readDaily"
    /\ inflight' = [inflight EXCEPT ![i] =
                       Spread(@, [step  |-> "writeDaily",
                                  today |-> TodayKey(now),
                                  month |-> MonthKey(now),
                                  currentStats |->
                                      DailyAfter(daily, now, @.newStatus,
                                                 PartySizeOf(@.queueData),
                                                 WaitTimeOf(@.queueData))[TodayKey(now)]])]
    /\ UNCHANGED <<waiting, serving, archived, daily, monthly, settings, now, nextId,
                   last, joinRun, withdrawn, lastAdvance, watch, listeners, delivered,
                   formData, queues>>

\* updateDailyStats: update(queues/stats/daily/{today}, currentStats); the call
\* returns here unless the status is completed
UpdateDailyStatsWrites(i) ==
    /\ i \in 1..Len(inflight)
    /\ inflight[i].op = "advance" /\ inflight[i].step = "writeDaily"
    /\ daily' = UpdateChild(daily, inflight[i].today, inflight[i].currentStats)
    /\ IF inflight[i].newStatus = "completed"
       THEN /\ inflight' = [inflight EXCEPT ![i].step = "readMonthly"]
            /\ UNCHANGED <<last, lastAdvance>>
       ELSE /\ inflight' = RemoveAt(inflight, i)
            /\ last' = Call("advance", "none", Empty)
            /\ lastAdvance' = Empty
    /\ UNCHANGED <<waiting, serving, archived, monthly, settings, now, nextId, joinRun,
                   withdrawn, watch, listeners, delivered, formData, queues>>

\* updateDailyStats: get(queues/stats/monthly/{month}), and monthlyStats made ready
UpdateMonthlyStatsReads(i) ==
    /\ i \in 1..Len(inflight)
    /\ inflight[i].op = "advance" /\ inflight[i].step = "readMonthly"
    /\ inflight' = [inflight EXCEPT ![i] =
                       Spread(@, [step |-> "writeMonthly",
                                  monthlyStats |->
                                      MonthlyAfter(monthly, now, @.newStatus,
                                                   PartySizeOf(@.queueData),
                                                   WaitTimeOf(@.queueData))[@.month]])]
    /\ UNCHANGED <<waiting, serving, archived, daily, monthly, settings, now, nextId,
                   last, joinRun, withdrawn, lastAdvance, watch, listeners, delivered,
                   formData, queues>>

\* updateDailyStats: update(queues/stats/monthly/{month}, monthlyStats), and
\* updateQueueStatus returns
UpdateMonthlyStatsWrites(i) ==
    /\ i \in 1..Len(inflight)
    /\ inflight[i].op = "advance" /\ inflight[i].step = "writeMonthly"
    /\ monthly' = UpdateChild(monthly, inflight[i].month, inflight[i].monthlyStats)
    /\ inflight' = RemoveAt(inflight, i)
    /\ last' = Call("advance", "none", Empty)
    /\ lastAdvance' = Empty
    /\ UNCHANGED <<waiting, serving, archived, daily, settings, now, nextId, joinRun,
                   withdrawn, watch, listeners, delivered, formData, queues>>

(* --------------------------- store failures ---------------------------- *)

\* what the catch of getNextPosition returns
PositionOnError == 1

\* joinQueue(name, partySize, phone) when the get of queues/waiting in
\* getNextPosition fails: getNextPosition catches the error and returns 1, and
\* joinQueue goes on to push the entry
JoinQueueReadFails(name, partySize, phone) ==
    IF Trim(name) = <<>> \/ Trim(phone) = <<>> \/ LessThan(ToNumber(partySize), 1)
    THEN /\ last' = Call("join", "invalid", Empty)
         /\ lastAdvance' = Empty
         /\ UNCHANGED <<waiting, serving, archived, daily, monthly, settings, now,
                        nextId, joinRun, withdrawn, asyncVars, formData, queues>>
    ELSE /\ waiting' = SetChild(waiting, nextId,
                            [name      |-> Trim(name),
                             partySize |-> ParseInt(partySize),
                             phone     |-> Trim(phone),
                             position  |-> PositionOnError,
                             createdAt |-> now,
                             updatedAt |-> now])
         /\ joinRun' = <<>>
         /\ nextId' = nextId + 1
         /\ last' = Call("join", "none", [id |-> nextId])
         /\ lastAdvance' = Empty
         /\ UNCHANGED <<serving, archived, daily, monthly, settings, now, withdrawn,
                        asyncVars, formData, queues>>

\* joinQueue(name, partySize, phone) when the push to queues/waiting fails: the
\* error is logged and thrown again
JoinQueuePushFails(name, partySize, phone) ==
    /\ last' = IF Trim(name) = <<>> \/ Trim(phone) = <<>>
                  \/ LessThan(ToNumber(partySize), 1)
               THEN Call("join", "invalid", Empty)
               ELSE Call("join", "store", Empty)
    /\ lastAdvance' = Empty
    /\ UNCHANGED <<waiting, serving, archived, daily, monthly, settings, now, nextId,
                   joinRun, withdrawn, asyncVars, formData, queues>>

\* the object the catch of getDailyStats returns
DailyStatsOnError == [totalServed |-> 0, totalPeople |-> 0, avgWaitTime |-> 0]

\* getDailyStats() when the get of queues/stats/daily/<today> fails
GetDailyStatsReadFails ==
    /\ last' = Call("dailyStats", "none", DailyStatsOnError)
    /\ UNCHANGED <<waiting, serving, archived, daily, monthly, settings, now, nextId,
                   joinRun, withdrawn, lastAdvance, asyncVars, formData, queues>>

(* ----------------------------- validation ------------------------------ *)

\* the outcome of a validator
Result(valid, message) == [valid |-> valid, message |-> message]

\* the longest trimmed name validateName lets through
NameLimit == 30

\* the length validatePhone asks for
PhoneLength == 10

\* the largest party validatePartySize lets through
PartyLimit == 20

\* validateName(name)
ValidateName(name) ==
    IF name = <<>> \/ Trim(name) = <<>>
    THEN Result(FALSE, "Please enter your name")
    ELSE IF Len(Trim(name)) > NameLimit
    THEN Result(FALSE, "Name must not exceed 50 characters")
    ELSE Result(TRUE, "Name is valid")

ValidatePhoneLengthOnly(phone) ==
    IF phone = <<>> \/ Trim(phone) = <<>>
    THEN Result(FALSE, "Please enter your phone number")
    ELSE IF Len(phone) # PhoneLength
    THEN Result(FALSE, "Phone number must be exactly 10 digits")
    ELSE Result(TRUE, "Phone number is valid")

\* validatePhone(phone)
ValidatePhone(phone) ==
    IF phone = <<>> \/ Trim(phone) = <<>>
    THEN Result(FALSE, "Please enter your phone number")
    ELSE IF Len(phone) # PhoneLength
    THEN Result(FALSE, "Phone number must be exactly 10 digits")
    ELSE IF ~(Len(phone) = PhoneLength /\ IsDigits(phone))
    THEN Result(FALSE, "Phone number must contain only digits")
    ELSE Result(TRUE, "Phone number is valid")

\* validatePartySize(partySize)
ValidatePartySize(partySize) ==
    LET size == ParseInt(partySize)
    IN  IF size = NaN \/ size < 1
        THEN Result(FALSE, "Party size must be at least 1")
        ELSE IF size > PartyLimit
        THEN Result(FALSE, "Party size cannot exceed 20")
        ELSE Result(TRUE, "Party size is valid")

ValidateJoinQueueFormPhoneFirst(name, phone, partySize) ==
    IF ~ValidatePhone(phone).valid THEN ValidatePhone(phone)
    ELSE IF ~ValidateName(name).valid THEN ValidateName(name)
    ELSE IF ~ValidatePartySize(partySize).valid THEN ValidatePartySize(partySize)
    ELSE Result(TRUE, "All fields are valid")

\* validateJoinQueueForm(name, phone, partySize)
ValidateJoinQueueForm(name, phone, partySize) ==
    LET nameValidation == ValidateName(name)
        phoneValidation == ValidatePhone(phone)
        partySizeValidation == ValidatePartySize(partySize)
    IN  IF ~nameValidation.valid THEN nameValidation
        ELSE IF ~phoneValidation.valid THEN phoneValidation
        ELSE IF ~partySizeValidation.valid THEN partySizeValidation
        ELSE Result(TRUE, "All fields are valid")

\* a call of one validator on the form's values changes nothing but its outcome
Validated(op, result) ==
    /\ last' = Call(op, "none", result)
    /\ lastAdvance' = Empty
    /\ UNCHANGED <<waiting, serving, archived, daily, monthly, settings, now, nextId,
                   joinRun, withdrawn, asyncVars, formData, queues>>

ValidateNameCall == Validated("validateName", ValidateName(formData.name))

ValidatePhoneCall == Validated("validatePhone", ValidatePhone(formData.phone))

ValidatePartySizeCall ==
    Validated("validatePartySize", ValidatePartySize(formData.partySize))

ValidateJoinQueueFormCall ==
    Validated("validateJoinQueueForm",
              ValidateJoinQueueForm(formData.name, formData.phone, formData.partySize))

(* ------------------------------ join page ------------------------------ *)

\* handleChange: typing into the name or the party size field
HandleChange(name, value) ==
    /\ name \in {"name", "partySize"}
    /\ formData' = [formData EXCEPT ![name] = value]
    /\ UNCHANGED <<waiting, serving, archived, daily, monthly, settings, now, nextId,
                   last, joinRun, withdrawn, lastAdvance, asyncVars, queues>>

\* value.replace(/\D/g, "")
NumbersOnly(value) == SelectSeq(value, IsDigit)

\* handlePhoneChange: typing into the phone field
HandlePhoneChange(value) ==
    LET numbersOnly == NumbersOnly(value)
        limitedPhone == SubSeq(numbersOnly, 1,
                               IF Len(numbersOnly) < PhoneLength
                               THEN Len(numbersOnly) ELSE PhoneLength)
    IN  /\ formData' = [formData EXCEPT !.phone = limitedPhone]
        /\ UNCHANGED <<waiting, serving, archived, daily, monthly, settings, now,
                       nextId, last, joinRun, withdrawn, lastAdvance, asyncVars,
                       queues>>

\* handleSubmit: the form is validated, then joinQueue called with its values
HandleSubmit ==
    LET validation == ValidateJoinQueueForm(formData.name, formData.phone,
                                            formData.partySize)
    IN  IF ~validation.valid
        THEN /\ last' = Call("submit", "invalid", [message |-> validation.message])
             /\ lastAdvance' = Empty
             /\ UNCHANGED <<waiting, serving, archived, daily, monthly, settings, now,
                            nextId, joinRun, withdrawn, asyncVars, formData, queues>>
        ELSE JoinQueue(formData.name, formData.partySize, formData.phone)

(* --------------------------- specifications ---------------------------- *)

\* push() of joinQueue hands out keys 1, 2, ...; the exploration stops accepting
\* joins once limit keys are out (a rejected call takes no key)
KeysLeft(limit, c) == c \in RejectedInputs \/ nextId <= limit

\* Spec: the life of an entry: joins of either customer, status reads, status
\* updates and withdrawals, each call run to completion, at one instant of the clock
Next ==
    \/ \E c \in JoinInputs : KeysLeft(MaxJoins, c) /\ JoinQueue(c.name, c.partySize, c.phone)
    \/ \E id \in IdSet : GetQueueStatus(id)
    \/ \E id \in IdSet, st \in StatusArgs : UpdateQueueStatus(id, st)
    \/ \E id \in IdSet : DeleteQueueEntry(id)

Spec == Init /\ [][Next]_vars

\* SpecClock: one customer's joins, status updates and statistics reads while the
\* clock advances (over midnight of the last day of a month)
NextClock ==
    \/ Tick
    \/ KeysLeft(MaxJoins, Bob) /\ JoinQueue(Bob.name, Bob.partySize, Bob.phone)
    \/ \E id \in IdSet, st \in ValidStatuses : UpdateQueueStatus(id, st)
    \/ GetDailyStats

SpecClock == Init /\ [][NextClock]_vars

\* SpecReorder: a queue of up to MaxReorderJoins parties of one customer, reordered,
\* read, called to service and withdrawn
ReorderIds == 1..MaxReorderJoins

NextReorder ==
    \/ KeysLeft(MaxReorderJoins, Alice) /\ JoinQueue(Alice.name, Alice.partySize, Alice.phone)
    \/ \E a \in ReorderIds, b \in ReorderIds : ReorderQueues(a, b)
    \/ \E id \in ReorderIds : GetQueueStatus(id)
    \/ \E id \in ReorderIds : UpdateQueueStatus(id, "serving")
    \/ \E id \in ReorderIds : DeleteQueueEntry(id)

SpecReorder == Init /\ [][NextReorder]_vars

\* SpecSearch: entries of either customer in every partition, looked up by phone
NextSearch ==
    \/ \E c \in ValidInputs : KeysLeft(MaxJoins, c) /\ JoinQueue(c.name, c.partySize, c.phone)
    \/ \E id \in IdSet, st \in ValidStatuses : UpdateQueueStatus(id, st)
    \/ \E p \in SearchTerms : SearchQueueByPhone(p)

SpecSearch == Init /\ [][NextSearch]_vars

\* SpecWatch: a customer's page watching one entry while entries of one customer
\* join, are called, closed and withdrawn
NextWatch ==
    \/ KeysLeft(MaxJoins, Alice) /\ JoinQueue(Alice.name, Alice.partySize, Alice.phone)
    \/ \E id \in IdSet, st \in ValidStatuses : UpdateQueueStatus(id, st)
    \/ \E id \in IdSet : DeleteQueueEntry(id)
    \/ \E id \in IdSet : SubscribeToQueueStatus(id)
    \/ OnWaitingEntry
    \/ OnServingEntry
    \/ UnsubscribeStatus

SpecWatch == Init /\ [][NextWatch]_vars

\* SpecList: the admin's list subscription while entries of one customer join, are
\* called and completed; queues/waiting changes at most twice per entry
ListenerIds == 1..(2 * MaxJoins + 1)

NextList ==
    \/ KeysLeft(MaxJoins, Alice) /\ JoinQueue(Alice.name, Alice.partySize, Alice.phone)
    \/ \E id \in DOMAIN waiting : UpdateQueueStatus(id, "serving")
    \/ \E id \in DOMAIN serving : UpdateQueueStatus(id, "completed")
    \/ SubscribeToQueueList
    \/ OnWaitingList
    \/ \E i \in ListenerIds : OnServingList(i)
    \/ UnsubscribeList

SpecList == Init /\ [][NextList]_vars

\* SpecRace: joins of either customer whose reads and inserts interleave, calls
\* to service and withdrawals
CallIds == 1..MaxInflight

NextRace ==
    \/ \E c \in ValidInputs :
          JoinsBegun < MaxJoins /\ JoinQueueReads(c.name, c.partySize, c.phone)
    \/ \E i \in CallIds : JoinQueueWrites(i)
    \/ \E id \in IdSet : UpdateQueueStatus(id, "serving")
    \/ \E id \in IdSet : DeleteQueueEntry(id)

SpecRace == Init /\ [][NextRace]_vars

\* SpecSwap: reorders in progress, their two writes apart, on a queue of one
\* customer's entries
NextSwap ==
    \/ KeysLeft(MaxJoins, Alice) /\ JoinQueue(Alice.name, Alice.partySize, Alice.phone)
    \/ \E a \in IdSet, b \in IdSet : ReorderQueuesReads(a, b)
    \/ \E i \in CallIds : ReorderQueuesWritesFirst(i)
    \/ \E i \in CallIds : ReorderQueuesWritesSecond(i)

SpecSwap == Init /\ [][NextSwap]_vars

\* SpecValidate: the validators applied to the forms of FormInputs
InitValidate == \E form \in FormInputs : InitWithForm(Empty, form)

NextValidate ==
    \/ ValidateNameCall
    \/ ValidatePhoneCall
    \/ ValidatePartySizeCall
    \/ ValidateJoinQueueFormCall

SpecValidate == InitValidate /\ [][NextValidate]_vars

\* SpecForm: one customer joins, through the join page or by a call of joinQueue
NextForm ==
    \/ \E value \in KeyNames : HandleChange("name", value)
    \/ \E value \in KeyParties : HandleChange("partySize", value)
    \/ \E value \in KeyPhones : HandlePhoneChange(value)
    \/ nextId <= 1 /\ HandleSubmit
    \/ \E c \in [name : KeyNames, phone : KeyPhones, partySize : KeyParties] :
          nextId <= 1 /\ JoinQueue(c.name, c.partySize, c.phone)

SpecForm == Init /\ [][NextForm]_vars

\* SpecEstimate: a queue read under each of the configurations
InitEstimate == \E cfg \in ConfigInputs : InitWith(cfg)

NextEstimate ==
    \/ KeysLeft(MaxJoins, Alice) /\ JoinQueue(Alice.name, Alice.partySize, Alice.phone)
    \/ \E id \in IdSet : GetQueueStatus(id)
    \/ \E id \in IdSet : UpdateQueueStatus(id, "serving")
    \/ \E id \in IdSet : DeleteQueueEntry(id)

SpecEstimate == InitEstimate /\ [][NextEstimate]_vars

\* SpecLookup: two customers whose numbers share their last seven digits, in
\* waiting or serving, looked up by their full numbers and withdrawn
NextLookup ==
    \/ \E c \in {Alice, Carol} :
          KeysLeft(MaxJoins, c) /\ JoinQueue(c.name, c.partySize, c.phone)
    \/ \E id \in IdSet : UpdateQueueStatus(id, "serving")
    \/ \E c \in {Alice, Carol} : SearchQueueByPhone(c.phone)
    \/ \E id \in IdSet : DeleteQueueEntry(id)

SpecLookup == Init /\ [][NextLookup]_vars

\* SpecFailure: joins, completions and reads of the statistics, with store
\* requests that fail
NextFailure ==
    \/ KeysLeft(MaxJoins, Alice) /\ JoinQueue(Alice.name, Alice.partySize, Alice.phone)
    \/ KeysLeft(MaxJoins, Alice)
          /\ JoinQueueReadFails(Alice.name, Alice.partySize, Alice.phone)
    \/ JoinQueuePushFails(Alice.name, Alice.partySize, Alice.phone)
    \/ \E id \in IdSet, st \in {"serving", "completed"} : UpdateQueueStatus(id, st)
    \/ GetDailyStats
    \/ GetDailyStatsReadFails

SpecFailure == Init /\ [][NextFailure]_vars

\* SpecMove: status updates taken one at a time, write by write, some of them
\* failing at the set
NextMove ==
    \/ KeysLeft(MaxJoins, Alice) /\ JoinQueue(Alice.name, Alice.partySize, Alice.phone)
    \/ \E id \in IdSet, st \in ValidStatuses :
          inflight = Empty /\ UpdateQueueStatusReads(id, st)
    \/ \E i \in CallIds : UpdateQueueStatusRemoves(i)
    \/ \E i \in CallIds : UpdateQueueStatusSets(i)
    \/ \E i \in CallIds : UpdateQueueStatusSetFails(i)
    \/ \E i \in CallIds : UpdateDailyStatsReads(i)
    \/ \E i \in CallIds : UpdateDailyStatsWrites(i)
    \/ \E i \in CallIds : UpdateMonthlyStatsReads(i)
    \/ \E i \in CallIds : UpdateMonthlyStatsWrites(i)

SpecMove == Init /\ [][NextMove]_vars

\* SpecAdvance: status updates of one entry whose reads and writes interleave,
\* and its withdrawal
NextAdvance ==
    \/ KeysLeft(1, Alice) /\ JoinQueue(Alice.name, Alice.partySize, Alice.phone)
    \/ \E st \in ValidStatuses : UpdateQueueStatusReads(1, st)
    \/ \E i \in CallIds : UpdateQueueStatusRemoves(i)
    \/ \E i \in CallIds : UpdateQueueStatusSets(i)
    \/ \E i \in CallIds : UpdateDailyStatsReads(i)
    \/ \E i \in CallIds : UpdateDailyStatsWrites(i)
    \/ \E i \in CallIds : UpdateMonthlyStatsReads(i)
    \/ \E i \in CallIds : UpdateMonthlyStatsWrites(i)
    \/ DeleteQueueEntry(1)

SpecAdvance == Init /\ [][NextAdvance]_vars

\* SpecTally: completions of distinct entries whose reads and writes interleave
NextTally ==
    \/ KeysLeft(MaxJoins, Alice) /\ JoinQueue(Alice.name, Alice.partySize, Alice.phone)
    \/ \E id \in IdSet :
          (\A i \in 1..Len(inflight) : inflight[i].queueId # id)
          /\ UpdateQueueStatusReads(id, "completed")
    \/ \E i \in CallIds : UpdateQueueStatusRemoves(i)
    \/ \E i \in CallIds : UpdateQueueStatusSets(i)
    \/ \E i \in CallIds : UpdateDailyStatsReads(i)
    \/ \E i \in CallIds : UpdateDailyStatsWrites(i)
    \/ \E i \in CallIds : UpdateMonthlyStatsReads(i)
    \/ \E i \in CallIds : UpdateMonthlyStatsWrites(i)

SpecTally == Init /\ [][NextTally]_vars

\* SpecShuffle: one reorder of two entries at a time, with entries called to
\* service or withdrawn between its reads and its writes
NextShuffle ==
    \/ KeysLeft(MaxJoins, Alice) /\ JoinQueue(Alice.name, Alice.partySize, Alice.phone)
    \/ \E a \in IdSet : \E b \in IdSet \ {a} :
          inflight = Empty /\ ReorderQueuesReads(a, b)
    \/ \E i \in CallIds : ReorderQueuesWritesFirst(i)
    \/ \E i \in CallIds : ReorderQueuesWritesSecond(i)
    \/ \E id \in IdSet : UpdateQueueStatus(id, "serving")
    \/ \E id \in IdSet : DeleteQueueEntry(id)

SpecShuffle == Init /\ [][NextShuffle]_vars

\* SpecListOrdered: the list subscription with the listeners on queues/serving
\* called the way the database client calls them. All of them are registered on
\* the same path, so one change of queues/serving is one event for which the
\* client calls every registered callback, in the order of registration, before
\* the page does anything else; a listener added when the path is already
\* listened to is called at once with the value the client holds.
ServingPending(i) == listeners.onServing[i].seen # Fired(serving)

\* the listeners registered before the i-th have been called for this event
InRegistrationOrder(i) ==
    /\ Exists(listeners)
    /\ i \in 1..Len(listeners.onServing)
    /\ \A j \in 1..(i - 1) : ~ServingPending(j)

\* the client is part-way through the callbacks of one event
Dispatching ==
    /\ Exists(listeners)
    /\ \E i \in 1..Len(listeners.onServing) :
          /\ ServingPending(i)
          /\ \E j \in 1..(i - 1) : ~ServingPending(j)

OnServingListInOrder(i) == InRegistrationOrder(i) /\ OnServingList(i)

NextListOrdered ==
    \/ ~Dispatching /\ KeysLeft(MaxJoins, Alice)
          /\ JoinQueue(Alice.name, Alice.partySize, Alice.phone)
    \/ \E id \in DOMAIN waiting : ~Dispatching /\ UpdateQueueStatus(id, "serving")
    \/ \E id \in DOMAIN serving : ~Dispatching /\ UpdateQueueStatus(id, "completed")
    \/ SubscribeToQueueList
    \/ ~Dispatching /\ OnWaitingList
    \/ \E i \in ListenerIds : OnServingListInOrder(i)

SpecListOrdered == Init /\ [][NextListOrdered]_vars

\* SpecBoth: every call is made on both adapters, one call at a time: joins,
\* status updates of entries in waiting or serving, swaps of two waiting
\* entries, removals of entries in waiting or serving
Active == DOMAIN waiting \cup DOMAIN serving

NextBoth ==
    \/ \E c \in ValidInputs :
          KeysLeft(MaxJoins, c) /\ JoinQueueOnBoth(c.name, c.partySize, c.phone)
    \/ \E id \in Active, st \in ValidStatuses : UpdateQueueStatusOnBoth(id, st)
    \/ \E a \in DOMAIN waiting : \E b \in DOMAIN waiting \ {a} :
          ReorderQueuesOnBoth(a, b)
    \/ \E id \in Active : DeleteQueueEntryOnBoth(id)
    \/ Tick

SpecBoth == Init /\ [][NextBoth]_vars

\* the step OnServingListInOrder(i), told by what it does to listeners
ServingListenerRuns(i) ==
    /\ InRegistrationOrder(i)
    /\ ServingPending(i)
    /\ listeners' = [listeners EXCEPT !.onServing[i].seen = Fired(serving)]

\* FairListOrdered: the client does call the listeners: a listener that has an
\* event to be called for is called
FairListOrdered ==
    /\ SpecListOrdered
    /\ WF_vars(~Dispatching /\ OnWaitingList)
    /\ \A i \in ListenerIds : WF_listeners(ServingListenerRuns(i))

(* ------------------------------ claims --------------------------------- *)

\* the partitions that hold an id
Places(id) ==
    {"waiting" : x \in {id} \cap DOMAIN waiting}
    \cup {"serving" : x \in {id} \cap DOMAIN serving}
    \cup {"archived" : x \in {id} \cap DOMAIN archived}

\* the ids joinQueue has returned
Joined == 1..(nextId - 1)

\* C1: starting from an empty waiting partition, N joins made one after another,
\* with no status update, reorder or remove in between, are assigned the
\* positions 1, 2, ..., N in call order.
C1_JoinsNumberedInOrder == \A i \in 1..Len(joinRun) : joinRun[i] = i

\* two joins in a row from an empty waiting partition, both still waiting
C1_Witness ==
    /\ Len(joinRun) >= 2
    /\ last.op = "join" /\ last.err = "none"
    /\ Cardinality(DOMAIN waiting) = Len(joinRun)

\* C2: after calls that each run to completion, the entries of the waiting
\* partition have pairwise distinct positions, each an integer >= 1.
C2_WaitingPositionsDistinct ==
    \A a \in DOMAIN waiting :
        /\ waiting[a].position \in Nat \ {0}
        /\ \A b \in DOMAIN waiting : a # b => waiting[a].position # waiting[b].position

\* two waiting entries just reordered, the later key now holding the smaller position
C2_Witness ==
    /\ last.op = "reorder" /\ last.err = "none"
    /\ Cardinality(DOMAIN waiting) >= 2
    /\ \E a \in DOMAIN waiting, b \in DOMAIN waiting :
           a < b /\ waiting[a].position > waiting[b].position

\* C3: for every join with a valid name, phone and party size the returned id
\* is non-empty (a push key), and getStatus(id) called next returns an object
\* whose status is "waiting" and whose position is >= 1.
C3_JoinThenStatusWaiting ==
    [][ /\ \A c \in ValidInputs :
              JoinQueue(c.name, c.partySize, c.phone) =>
                  last'.err = "none" /\ last'.val.id \in IdSet
        /\ \A id \in IdSet :
              (last.op = "join" /\ last.err = "none" /\ last.val.id = id
               /\ GetQueueStatus(id)) =>
                  /\ last'.err = "none"
                  /\ Has(last'.val, "status") /\ last'.val.status = "waiting"
                  /\ last'.val.position >= 1 ]_vars

\* what C3 has right: the id is a push key, getStatus(id) finds the entry and
\* reports a position >= 1
C3_JoinThenStatusFound ==
    [][ /\ \A c \in ValidInputs :
              JoinQueue(c.name, c.partySize, c.phone) =>
                  last'.err = "none" /\ last'.val.id \in IdSet
        /\ \A id \in IdSet :
              (last.op = "join" /\ last.err = "none" /\ last.val.id = id
               /\ GetQueueStatus(id)) =>
                  /\ last'.err = "none"
                  /\ last'.val.id = id
                  /\ last'.val.position >= 1 ]_vars

\* C4: after advance(id, "serving") on an entry that was in waiting, the entry is
\* absent from waiting and present in serving with servedAt set, and every
\* getStatus(id) made while the entry is in serving returns status "serving".
C4_ServingThenStatusServing ==
    [][ \A id \in IdSet :
          /\ (id \in DOMAIN waiting /\ UpdateQueueStatus(id, "serving")) =>
                 /\ id \notin DOMAIN waiting'
                 /\ id \in DOMAIN serving'
                 /\ Has(serving'[id], "servedAt") /\ serving'[id].servedAt = now
          /\ (id \in DOMAIN serving /\ GetQueueStatus(id)) =>
                 /\ last'.err = "none"
                 /\ Has(last'.val, "status") /\ last'.val.status = "serving" ]_vars

\* what C4 has right: the move itself, and getStatus(id) then finds the entry
C4_ServingMoveDone ==
    [][ \A id \in IdSet :
          /\ (id \in DOMAIN waiting /\ UpdateQueueStatus(id, "serving")) =>
                 /\ id \notin DOMAIN waiting'
                 /\ id \in DOMAIN serving'
                 /\ Has(serving'[id], "servedAt") /\ serving'[id].servedAt = now
          /\ (id \in DOMAIN serving /\ GetQueueStatus(id)) =>
                 /\ last'.err = "none"
                 /\ last'.val.servedAt = serving[id].servedAt ]_vars

\* what C5 says getDailyStats returns after the status update recorded in adv
StatsAsClaimed(adv, stats) ==
    /\ adv.status = "completed" =>
           /\ stats.totalServed = adv.statsBefore.totalServed + 1
           /\ stats.totalPeople = adv.statsBefore.totalPeople + adv.entry.partySize
    /\ adv.status = "skipped" =>
           /\ stats.totalServed = adv.statsBefore.totalServed
           /\ stats.totalPeople = adv.statsBefore.totalPeople

\* C5 as stated: for an entry in waiting or serving, advance(id, "completed")
\* followed by dailyStats() shows totalServed 1 higher and totalPeople higher by
\* the entry's partySize than before the call; advance(id, "skipped") leaves both
\* unchanged.
C5_StatsAfterAdvance ==
    [][ (Exists(lastAdvance) /\ GetDailyStats) =>
            StatsAsClaimed(lastAdvance, last'.val) ]_vars

\* C5 as amended: the same, when dailyStats() is called on the UTC date on which
\* the status update ran (the aggregate is kept per date).
C5_StatsAfterAdvanceSameDay ==
    [][ (Exists(lastAdvance) /\ TodayKey(now) = TodayKey(lastAdvance.at)
         /\ GetDailyStats) =>
            StatsAsClaimed(lastAdvance, last'.val) ]_vars

\* a second party completed, from serving, and the statistics read on the same day
C5_Witness ==
    /\ last.op = "dailyStats"
    /\ Exists(lastAdvance)
    /\ lastAdvance.status = "completed"
    /\ Has(lastAdvance.entry, "servedAt")
    /\ TodayKey(now) = TodayKey(lastAdvance.at)
    /\ last.val.totalServed = 2
    /\ last.val.totalPeople = 2 * lastAdvance.entry.partySize

\* a party skipped after one was completed, and the statistics read on the same day
C5_WitnessSkipped ==
    /\ last.op = "dailyStats"
    /\ Exists(lastAdvance)
    /\ lastAdvance.status = "skipped"
    /\ TodayKey(now) = TodayKey(lastAdvance.at)
    /\ last.val.totalServed = 1

\* C6: the only partition changes a status update makes to an entry are
\* waiting -> serving, waiting -> archived (completed or skipped) and
\* serving -> archived, and it changes no other entry's partition; an archived
\* entry stays archived whatever is called next, and a status update on an
\* archived id fails with not-found, leaving the store as it was.
C6_AdvanceMovesForwardOnly ==
    [][ /\ \A id \in IdSet : "archived" \in Places(id) => Places(id)' = {"archived"}
        /\ last'.op = "advance" =>
              \A id \in IdSet, st \in StatusArgs :
                  UpdateQueueStatus(id, st) =>
                      /\ \A other \in IdSet \ {id} : Places(other)' = Places(other)
                      /\ \/ Places(id)' = Places(id)
                         \/ /\ st = "serving" /\ last'.err = "none"
                            /\ Places(id) = {"waiting"} /\ Places(id)' = {"serving"}
                         \/ /\ st \in {"completed", "skipped"} /\ last'.err = "none"
                            /\ Places(id) \in {{"waiting"}, {"serving"}}
                            /\ Places(id)' = {"archived"}
                            /\ archived'[id].status = st
                      /\ ("archived" \in Places(id) /\ st \in ValidStatuses) =>
                             last'.err = "not_found" /\ store' = store ]_vars

\* every entry archived, one completed from serving and one skipped from waiting,
\* and a further status update on one of them refused
C6_Witness ==
    /\ DOMAIN archived = IdSet
    /\ \E a \in IdSet, b \in IdSet :
          /\ archived[a].status = "completed" /\ Has(archived[a], "servedAt")
          /\ archived[b].status = "skipped" /\ ~Has(archived[b], "servedAt")
    /\ last.op = "advance" /\ last.err = "not_found"

\* C7: after calls that each run to completion, every id joinQueue returned and
\* deleteQueueEntry did not delete is held by exactly one of waiting, serving,
\* archived.
C7_ExactlyOnePartition ==
    \A id \in Joined \ withdrawn : Cardinality(Places(id)) = 1

\* both entries joined and moved on, one now in serving and one in archived, and
\* deleteQueueEntry called on the archived one
C7_Witness ==
    /\ Joined = IdSet /\ withdrawn = {}
    /\ Exists(serving) /\ Exists(archived)
    /\ last.op = "remove"

\* C8: reorderQueues(a, b) with a and b both in waiting gives a the position b
\* had and b the position a had, and changes no position of any other entry and
\* no partition; with a or b outside waiting it fails with not-found and changes
\* nothing.
C8_ReorderSwapsPositions ==
    [][ \A a \in ReorderIds, b \in ReorderIds :
          ReorderQueues(a, b) =>
              IF a \in DOMAIN waiting /\ b \in DOMAIN waiting
              THEN /\ last'.err = "none"
                   /\ DOMAIN waiting' = DOMAIN waiting
                   /\ waiting'[a].position = waiting[b].position
                   /\ waiting'[b].position = waiting[a].position
                   /\ \A e \in DOMAIN waiting \ {a, b} : waiting'[e] = waiting[e]
                   /\ serving' = serving /\ archived' = archived
              ELSE /\ last'.err = "not_found"
                   /\ store' = store ]_vars

\* three waiting entries, the first and the last having just changed places
C8_Witness ==
    /\ last.op = "reorder" /\ last.err = "none"
    /\ DOMAIN waiting = ReorderIds
    /\ waiting[1].position = MaxReorderJoins
    /\ waiting[MaxReorderJoins].position = 1
    /\ waiting[2].position = 2

\* the 1-based rank of a waiting entry by ascending stored position
RankInWaiting(id) ==
    1 + Cardinality({e \in DOMAIN waiting : waiting[e].position < waiting[id].position})

\* C9: getQueueStatus(id) returns as position the 1-based rank of the entry among
\* the waiting entries by ascending stored position, and 0 for an entry in
\* serving; when the head of the queue is moved to serving, the rank of every
\* waiting entry behind it drops by one.
C9_StatusPositionIsRank ==
    [][ \A id \in ReorderIds :
          /\ (id \in DOMAIN waiting /\ GetQueueStatus(id)) =>
                 last'.err = "none" /\ last'.val.position = RankInWaiting(id)
          /\ (id \notin DOMAIN waiting /\ id \in DOMAIN serving /\ GetQueueStatus(id)) =>
                 last'.err = "none" /\ last'.val.position = 0
          /\ (id \in DOMAIN waiting /\ RankInWaiting(id) = 1
              /\ UpdateQueueStatus(id, "serving")) =>
                 \A e \in DOMAIN waiting \ {id} :
                     RankInWaiting(e)' = RankInWaiting(e) - 1 ]_vars

\* the entry that joined second, its stored position still 2, reported at
\* position 1 once the head of the queue is in serving
C9_Witness ==
    /\ last.op = "getStatus" /\ last.err = "none"
    /\ last.val.id \in DOMAIN waiting
    /\ waiting[last.val.id].position = 2
    /\ last.val.position = 1
    /\ Exists(serving)

\* the match of one entry as C10 words it: the trimmed phone equals the trimmed
\* search term, or their last 7 characters are equal
MatchesAsClaimed(entry, term) ==
    \/ Trim(entry.phone) = Trim(term)
    \/ SliceLast(Trim(entry.phone), PhoneSuffixLen) = SliceLast(Trim(term), PhoneSuffixLen)

\* the outcome C10 gives a search: the first match in waiting, else the first
\* match in serving, else not-found
SearchAsClaimed(term) ==
    LET inWaiting == {e \in DOMAIN waiting : MatchesAsClaimed(waiting[e], term)}
        inServing == {e \in DOMAIN serving : MatchesAsClaimed(serving[e], term)}
    IN  IF inWaiting # {}
        THEN /\ last'.err = "none"
             /\ last'.val.id = CHOOSE e \in inWaiting : \A f \in inWaiting : e <= f
             /\ last'.val.status = "waiting"
             /\ last'.val.phone = waiting[last'.val.id].phone
        ELSE IF inServing # {}
        THEN /\ last'.err = "none"
             /\ last'.val.id = CHOOSE e \in inServing : \A f \in inServing : e <= f
             /\ last'.val.status = "serving"
             /\ last'.val.phone = serving[last'.val.id].phone
        ELSE last'.err = "not_found"

C11_RemoveDeletesOnlyThatEntry ==
    [][ \A id \in IdSet :
          (last'.op = "remove" /\ DeleteQueueEntry(id)) =>
              /\ last'.err = "none"
              /\ id \notin DOMAIN waiting' /\ id \notin DOMAIN serving'
              /\ DOMAIN waiting' = DOMAIN waiting \ {id}
              /\ DOMAIN serving' = DOMAIN serving \ {id}
              /\ \A e \in DOMAIN waiting' : waiting'[e] = waiting[e]
              /\ \A e \in DOMAIN serving' : serving'[e] = serving[e]
              /\ archived' = archived /\ daily' = daily /\ monthly' = monthly
              /\ id \notin DOMAIN waiting \cup DOMAIN serving => store' = store ]_vars

\* the first entry deleted, the second still waiting at its position 2, nothing
\* archived and no statistics written
C11_Witness ==
    /\ last.op = "remove"
    /\ \E id \in withdrawn : id \notin DOMAIN waiting \cup DOMAIN serving
    /\ Exists(waiting) /\ ~Exists(archived)
    /\ \E e \in DOMAIN waiting : Has(waiting[e], "position") /\ waiting[e].position = 2
    /\ daily = Empty

C14_UnsubscribeStopsCallbacks ==
    [][ /\ (Exists(watch) /\ ~watch.active) => ~OnWaitingEntry /\ ~OnServingEntry
        /\ (Exists(listeners) /\ ~listeners.active) =>
               /\ ~OnWaitingList
               /\ \A i \in ListenerIds : ~OnServingList(i)
               /\ listeners.onServing = <<>> ]_vars

\* C15: every list subscribeToQueueList delivers is sorted by ascending position,
\* holds each entry id at most once, and tags each entry waiting or serving.
C15_ListSortedWithoutDuplicates ==
    (Exists(delivered) /\ delivered.sub = "list") =>
        LET allQueues == delivered.val
        IN  /\ \A i \in 1..(Len(allQueues) - 1) :
                   allQueues[i].position <= allQueues[i + 1].position
            /\ \A i \in 1..Len(allQueues), j \in 1..Len(allQueues) :
                   i # j => allQueues[i].id # allQueues[j].id
            /\ \A i \in 1..Len(allQueues) : allQueues[i].status \in {"waiting", "serving"}

\* the subscription has delivered every change: no listener of it has a callback
\* left to run
WatchCaughtUp ==
    /\ Exists(watch) /\ watch.active
    /\ watch.onWaiting = Fired(ChildOf(waiting, watch.id))
    /\ watch.onServing = Fired(ChildOf(serving, watch.id))

\* C16: for subscribeToQueueStatus(id, callback), every change of the watched
\* entry after subscribing (waiting -> serving, the move to archived, the
\* deletion) leads to a callback that reflects the new state: once the
\* subscription has delivered every change, the latest callback shows the entry
\* where it is now.
C16_CallbackReflectsEveryChange ==
    (WatchCaughtUp /\ Exists(delivered)) =>
        IF watch.id \in DOMAIN waiting
        THEN delivered.val.status = "waiting"
        ELSE IF watch.id \in DOMAIN serving
        THEN delivered.val.status = "serving"
        ELSE delivered.val.status \notin {"waiting", "serving"}

\* C17: subscribeToQueueList never delivers a list built from an older snapshot
\* of queues/waiting after a list built from a newer one.
C17_ListSnapshotsNeverGoBack ==
    [][ (Exists(delivered) /\ delivered.sub = "list" /\ delivered'.sub = "list") =>
            delivered'.snap >= delivered.snap ]_vars

\* C18: when an entry ahead of the watched waiting entry leaves the waiting
\* partition, the subscription has a callback to run that carries a position one
\* lower than the one the callback last received.
C18_DepartureAheadLowersPosition ==
    [][ ( /\ WatchCaughtUp /\ Exists(delivered)
          /\ watch.id \in DOMAIN waiting /\ watch.id \in DOMAIN waiting'
          /\ \E e \in DOMAIN waiting \ DOMAIN waiting' :
                 waiting[e].position < waiting[watch.id].position ) =>
            /\ watch'.onWaiting # Fired(ChildOf(waiting', watch.id))
            /\ waiting'[watch.id].position = delivered.val.position - 1 ]_vars

\* C19: a join in progress pushes the position it computed from the waiting
\* partition it read, so two joins that both read the partition before either
\* inserts are assigned the same position, and two waiting entries then share it.
C19_InterleavedJoinsSharePosition ==
    [][ \A i \in CallIds :
          (last'.op = "join" /\ JoinQueueWrites(i)) =>
              /\ waiting'[nextId].position = GetNextPosition(inflight[i].read)
              /\ \A j \in (1..Len(inflight)) \ {i} :
                     (inflight[j].op = "join" /\ inflight[j].read = inflight[i].read) =>
                         /\ inflight[j].position = waiting'[nextId].position
                         /\ \E k \in 1..Len(inflight') :
                                inflight'[k] = inflight[j] ]_vars

\* two joins have interleaved: two waiting entries hold one position
C19_Witness ==
    /\ inflight = <<>>
    /\ last.op = "join"
    /\ \E a \in DOMAIN waiting, b \in DOMAIN waiting :
           a # b /\ waiting[a].position = waiting[b].position

\* C20: while reorderQueues(a, b) is in progress on two entries with different
\* positions, no state of the store has a and b at the same position.
C20_ReorderNeverSharesPosition ==
    \A i \in 1..Len(inflight) :
        ( /\ inflight[i].op = "reorder"
          /\ inflight[i].pos1 # inflight[i].pos2
          /\ inflight[i].queueId1 \in DOMAIN waiting
          /\ inflight[i].queueId2 \in DOMAIN waiting ) =>
            waiting[inflight[i].queueId1].position
                # waiting[inflight[i].queueId2].position

\* the ten ASCII digits
AsciiDigits == {"0", "1", "2", "3", "4", "5", "6", "7", "8", "9"}

\* C21: joinQueue rejects, and leaves the store as it was, whenever the name, the
\* phone or the party size it is given fails its validation rule.
C21_JoinRejectsInvalidInput ==
    [][\A c \in [name : KeyNames, phone : KeyPhones, partySize : KeyParties] :
          (/\ ~ValidateJoinQueueForm(c.name, c.phone, c.partySize).valid
           /\ JoinQueue(c.name, c.partySize, c.phone))
          => (last'.err # "none" /\ UNCHANGED store)]_vars

\* C21, through the join page: a submitted form that fails validation is turned
\* down before joinQueue is called, and the store stays as it was.
C21_SubmitRejectsInvalidForm ==
    [][(/\ ~ValidateJoinQueueForm(formData.name, formData.phone,
                                  formData.partySize).valid
        /\ HandleSubmit)
       => (last'.err # "none" /\ UNCHANGED store)]_vars

C23_FormReportsFirstFailure ==
    last.op = "validateJoinQueueForm"
    => LET n == ValidateName(formData.name)
           p == ValidatePhone(formData.phone)
           s == ValidatePartySize(formData.partySize)
       IN  /\ last.val.valid <=> (n.valid /\ p.valid /\ s.valid)
           /\ ~n.valid => last.val = n
           /\ (n.valid /\ ~p.valid) => last.val = p
           /\ (n.valid /\ p.valid /\ ~s.valid) => last.val = s

\* a form whose name and phone both fail was answered with the name's failure
C23_Witness ==
    /\ last.op = "validateJoinQueueForm"
    /\ ~ValidateName(formData.name).valid
    /\ ~ValidatePhone(formData.phone).valid
    /\ last.val = ValidateName(formData.name)
    /\ last.val # ValidatePhone(formData.phone)

\* C24: validateName accepts a name exactly when it is 2 to 50 characters long.
C24_NameValidIffTwoToFifty ==
    last.op = "validateName"
    => (last.val.valid <=> (Len(formData.name) >= 2 /\ Len(formData.name) <= 50))

\* C25: every join that is accepted is given a position above the position of
\* every entry that joined before it, wherever that entry is now.
C25_JoinPositionsStrictlyIncrease ==
    [][\A c \in JoinInputs :
          (/\ last'.op = "join"
           /\ last'.err = "none"
           /\ JoinQueue(c.name, c.partySize, c.phone))
          => \A id \in 1..(nextId - 1) :
                /\ id \in DOMAIN waiting => waiting'[nextId].position > waiting[id].position
                /\ id \in DOMAIN serving => waiting'[nextId].position > serving[id].position
                /\ id \in DOMAIN archived
                      => waiting'[nextId].position > archived[id].position]_vars

\* the position stored with an id, in whichever partition holds it
StoredPosition(id) ==
    IF id \in DOMAIN waiting THEN waiting[id].position
    ELSE IF id \in DOMAIN serving THEN serving[id].position
    ELSE archived[id].position

SourceEntry(id) == IF id \in DOMAIN waiting THEN waiting[id] ELSE serving[id]

\* w is the number of minutes nearest to the time from createdAt to servedAt,
\* a half counting upwards (the clock of the model counts seconds)
NearestMinute(w, entry) ==
    LET waited == entry.servedAt - entry.createdAt
    IN  /\ 60 * w <= waited + 30
        /\ waited + 30 < 60 * (w + 1)

\* the waitTime an archived entry is to hold, given the entry it was made from
WaitTimeAsComputed(arch, entry) ==
    /\ Has(arch, "waitTime")
    /\ Has(entry, "servedAt") => NearestMinute(arch.waitTime, entry)
    /\ ~Has(entry, "servedAt") => arch.waitTime = 0

\* C27 as stated: the waitTime of an archived entry is
\* round((servedAt - createdAt) / 60000) when it was completed after being
\* served and 0 when it was completed straight from waiting, and a skipped entry
\* is archived without a waitTime.
C27_WaitTimeOnlyForCompleted ==
    [][\A id \in IdSet :
          /\ (/\ last'.op = "advance" /\ last'.err = "none"
              /\ UpdateQueueStatus(id, "completed"))
             => WaitTimeAsComputed(archived'[id], SourceEntry(id))
          /\ (/\ last'.op = "advance" /\ last'.err = "none"
              /\ UpdateQueueStatus(id, "skipped"))
             => ~Has(archived'[id], "waitTime")]_vars

\* C27 as amended: every entry archived, completed or skipped, holds a waitTime:
\* round((servedAt - createdAt) / 60000) when it had been served, 0 when it was
\* archived straight from waiting.
C27_WaitTimeOnEveryArchivedEntry ==
    [][\A id \in IdSet, st \in {"completed", "skipped"} :
          (/\ last'.op = "advance" /\ last'.err = "none"
           /\ UpdateQueueStatus(id, st))
          => WaitTimeAsComputed(archived'[id], SourceEntry(id))]_vars

\* one party completed half a minute after it joined, with a waitTime of 1, and
\* one party skipped straight from waiting, with a waitTime of 0
C27_Witness ==
    /\ last.op = "advance"
    /\ \E a \in DOMAIN archived :
          /\ archived[a].status = "completed"
          /\ Has(archived[a], "servedAt")
          /\ archived[a].servedAt = archived[a].createdAt + 30
          /\ archived[a].waitTime = 1
    /\ \E b \in DOMAIN archived :
          /\ archived[b].status = "skipped"
          /\ ~Has(archived[b], "servedAt")
          /\ archived[b].waitTime = 0

\* the estimate claimed for a status read: the number of waiting entries times
\* the serving time avg
EstimateIs(avg) ==
    last'.val.estimatedWaitTime = Cardinality(DOMAIN waiting) * avg

\* C28 as stated: getQueueStatus returns as estimatedWaitTime the number of
\* entries waiting at that moment times the averageServingTime of
\* settings/config, and times 5 when that setting is absent.
C28_EstimateIsCountTimesSetting ==
    [][\A id \in IdSet :
          (/\ last'.op = "getStatus" /\ last'.err = "none"
           /\ GetQueueStatus(id))
          => IF "averageServingTime" \in DOMAIN settings
             THEN EstimateIs(settings.averageServingTime)
             ELSE EstimateIs(5)]_vars

\* C28 as amended: the same, with 5 also taking the place of a setting of 0.
C28_EstimateIsCountTimesSettingOrFive ==
    [][\A id \in IdSet :
          (/\ last'.op = "getStatus" /\ last'.err = "none"
           /\ GetQueueStatus(id))
          => IF "averageServingTime" \in DOMAIN settings
                /\ settings.averageServingTime # 0
             THEN EstimateIs(settings.averageServingTime)
             ELSE EstimateIs(5)]_vars

\* with a setting of 3 minutes and two parties waiting, the estimate read was 6
C28_Witness ==
    /\ last.op = "getStatus"
    /\ last.err = "none"
    /\ "averageServingTime" \in DOMAIN settings
    /\ settings.averageServingTime = 3
    /\ Cardinality(DOMAIN waiting) = 2
    /\ last.val.estimatedWaitTime = 6

\* C29: when an entry in waiting or serving holds exactly the phone number
\* searched for, searchQueueByPhone returns an entry with that phone number; an
\* entry that only shares its last seven digits is returned when there is none.
C29_ExactMatchPreferred ==
    [][\A c \in {Alice, Carol} :
          (/\ last'.op = "search"
           /\ SearchQueueByPhone(c.phone)
           /\ \/ \E e \in DOMAIN waiting : waiting[e].phone = c.phone
              \/ \E e \in DOMAIN serving : serving[e].phone = c.phone)
          => (last'.err = "none" /\ last'.val.phone = c.phone)]_vars

\* C30: an adapter call in which a store request fails rejects: joinQueue rejects
\* and inserts nothing when the read of queues/waiting fails, and getDailyStats
\* rejects when the read of the day's statistics fails.
C30_StoreFailuresReject ==
    [][/\ JoinQueueReadFails(Alice.name, Alice.partySize, Alice.phone)
          => (last'.err # "none" /\ UNCHANGED store)
       /\ JoinQueuePushFails(Alice.name, Alice.partySize, Alice.phone)
          => (last'.err # "none" /\ UNCHANGED store)
       /\ GetDailyStatsReadFails => last'.err # "none"]_vars

\* C30, for the push: joinQueue rejects and inserts nothing when its push fails.
C30_PushFailureRejects ==
    [][JoinQueuePushFails(Alice.name, Alice.partySize, Alice.phone)
          => (last'.err # "none" /\ UNCHANGED store)]_vars

\* C31: a status update that moves an entry removes it from the partition it
\* was read from before it sets it in serving or archived: when the set is made
\* the entry is in no partition, afterwards it is in the destination only, an
\* update that stops between the two writes leaves the entry in no partition,
\* and at no time is an entry in two partitions.
C31_RemoveBeforeInsert ==
    [][/\ \A id \in IdSet : Cardinality(Places(id)') <= 1
       /\ \A i \in 1..Len(inflight), id \in IdSet :
             /\ (inflight[i].queueId = id /\ UpdateQueueStatusSets(i))
                => /\ Places(id) = {}
                   /\ Places(id)' = {IF inflight[i].newStatus = "serving"
                                     THEN "serving" ELSE "archived"}
             /\ (inflight[i].queueId = id /\ UpdateQueueStatusSetFails(i))
                => Places(id)' = {}]_vars

\* a status update stopped at its set, and the entry it had removed is in no
\* partition
C31_Witness ==
    /\ last.op = "advance"
    /\ last.err = "store"
    /\ inflight = Empty
    /\ \E id \in Joined : Places(id) = {}

\* C32: once two status updates of one id whose reads and writes interleaved
\* have both returned, the id is in at most one of waiting, serving, archived.
C32_InterleavedAdvancesKeepOnePartition ==
    inflight = Empty => \A id \in IdSet : Cardinality(Places(id)) <= 1

\* C34: an id that deleteQueueEntry has removed is never again in waiting or
\* serving, whatever status updates that had read the entry write afterwards.
C34_RemovedStaysRemoved ==
    \A id \in withdrawn : id \notin DOMAIN waiting /\ id \notin DOMAIN serving

\* the field f of the aggregate kept under key, 0 when there is none
TotalOf(node, key, f) ==
    IF key \in DOMAIN node /\ f \in DOMAIN node[key] THEN node[key][f] ELSE 0

\* the archived entries with status completed
Completed == {id \in DOMAIN archived : archived[id].status = "completed"}

RECURSIVE PeopleIn(_)
\* the sum of the party sizes of the archived entries ids
PeopleIn(ids) ==
    IF ids = {} THEN 0
    ELSE LET id == CHOOSE x \in ids : TRUE
         IN  archived[id].partySize + PeopleIn(ids \ {id})

\* C36: once every completion of distinct entries whose reads and writes
\* interleaved has returned, the daily and the monthly totalServed equal the
\* number of archived entries with status completed, and totalPeople the sum of
\* their party sizes.
C36_NoIncrementLost ==
    inflight = Empty
    => /\ TotalOf(daily, TodayKey(now), "totalServed") = Cardinality(Completed)
       /\ TotalOf(monthly, MonthKey(now), "totalServed") = Cardinality(Completed)
       /\ TotalOf(daily, TodayKey(now), "totalPeople") = PeopleIn(Completed)
       /\ TotalOf(monthly, MonthKey(now), "totalPeople") = PeopleIn(Completed)

\* C33: updateQueueStatus(id, "serving") on an entry that is in serving changes
\* nothing in the store: the entry stays in serving with the servedAt and
\* updatedAt it had.
C33_ServingAgainChangesNothing ==
    [][\A id \in IdSet :
          (/\ id \in DOMAIN serving
           /\ id \notin DOMAIN waiting
           /\ last'.op = "advance"
           /\ UpdateQueueStatus(id, "serving"))
          => UNCHANGED store]_vars

\* an entry called to service was called again half a minute later and kept
\* its servedAt
C33_Witness ==
    /\ last.op = "advance"
    /\ last.err = "none"
    /\ Exists(lastAdvance)
    /\ lastAdvance.status = "serving"
    /\ Has(lastAdvance.entry, "servedAt")
    /\ lastAdvance.id \in DOMAIN serving
    /\ now > lastAdvance.entry.servedAt
    /\ serving[lastAdvance.id].servedAt = lastAdvance.entry.servedAt
    /\ serving[lastAdvance.id].updatedAt = lastAdvance.entry.updatedAt

\* C35: whatever status updates and withdrawals run between the reads and the
\* writes of a reorderQueues, every record in queues/waiting is an entry made by
\* joinQueue, holding name, phone, partySize and createdAt.
C35_WaitingHoldsFullEntries ==
    \A id \in DOMAIN waiting :
        {"name", "phone", "partySize", "createdAt"} \subseteq DOMAIN waiting[id]

\* C37: for a watched entry that is waiting, once the subscription has delivered
\* every change, the position its latest callback carried is the position
\* getQueueStatus returns in that state: the 1-based rank of the entry among the
\* waiting entries.
C37_CallbackPositionIsRank ==
    (/\ WatchCaughtUp
     /\ watch.id \in DOMAIN waiting
     /\ Exists(delivered)
     /\ delivered.sub = "status")
    => delivered.val.position = RankInWaiting(watch.id)

\* C38: for a list subscription that is not unsubscribed, once the store stops
\* changing the last list delivered holds exactly the entries then in waiting and
\* in serving, each once with its fields and its status, in ascending position.
ListSubscribed == Exists(listeners) /\ listeners.active

ListIsCurrent ==
    /\ Exists(delivered)
    /\ delivered.sub = "list"
    /\ LET list == delivered.val
       IN  /\ {list[i].id : i \in 1..Len(list)} = DOMAIN waiting \cup DOMAIN serving
           /\ \A i, j \in 1..Len(list) : list[i].id = list[j].id => i = j
           /\ \A i \in 1..Len(list) :
                \/ /\ list[i].id \in DOMAIN waiting
                   /\ list[i] = Spread([id |-> list[i].id, status |-> "waiting"],
                                       waiting[list[i].id])
                \/ /\ list[i].id \in DOMAIN serving
                   /\ list[i] = Spread([id |-> list[i].id, status |-> "serving"],
                                       serving[list[i].id])
           /\ \A i, j \in 1..Len(list) :
                i < j => list[i].position <= list[j].position

SameList ==
    FlatQueueList(queues)
        = AllQueues(Tagged(waiting, "waiting"), Tagged(serving, "serving"))

SameRanks ==
    \A id \in Active :
        FlatGetQueuePosition(queues, id) = GetQueuePosition(waiting, id)

SameTotals ==
    /\ FlatGetDailyStats(queues).totalServed
         = DailyStatsObject(daily, now).totalServed
    /\ FlatGetDailyStats(queues).totalPeople
         = DailyStatsObject(daily, now).totalPeople

C39_AdaptersAgree == SameList /\ SameRanks /\ SameTotals

====
